---- MODULE Spec2Model ----
(***************************************************************************)
(* Model of the Metal graphics pipeline state object of LLGL:              *)
(*   MTGraphicsPSO::MTGraphicsPSO            (construction, "Translate")   *)
(*   MTGraphicsPSO::CreateRenderPipelineState                              *)
(*   MTGraphicsPSO::CreateDepthStencilState                                *)
(*   MTGraphicsPSO::Bind                     (bind-time state replay)      *)
(* Pointers are integers, 0 being the null pointer; native Metal objects   *)
(* are handles numbered by the device in creation order, 0 being nil.      *)
(* Arrays are functions over 0..n-1, as the code indexes them.             *)
(* The vertex descriptor and the input primitive topology of the native    *)
(* pipeline descriptor are opaque values no property reads; they are left  *)
(* out.  Floating-point state (depth bias, blend colour) is integer-valued.*)
(***************************************************************************)
EXTENDS Integers, Sequences, FiniteSets, TLC

(***************************************************************************)
(* Bounds of the model.                                                    *)
(***************************************************************************)
\* Constructions (successful or not) attempted in one behaviour.
MaxTranslate == 2
\* The largest number of colour attachments a render pass of the model has.
MaxColorAttachments == 9
\* Threads that may be inside a construction at the same time.
NumThreads == 2

(***************************************************************************)
(* Program constants.                                                      *)
(***************************************************************************)
\* The largest desc.storageBuffer.elements and desc.size of a storage buffer.
MaxElements == 2
MaxSize == 3

nullptr == 0
nil == 0
\* std::size_t(8u): the number of colour attachments the translator fills.
MaxNativeColorAttachments == 8
\* The platform limits of the tessellation factor.
MaxTessFactorIOS == 16
MaxTessFactorOther == 64
\* BlendDescriptor::targets has one entry per native colour attachment.
NumBlendTargets == MaxNativeColorAttachments

Min(a, b) == IF a < b THEN a ELSE b

(***************************************************************************)
(* MTTypes conversions (LLGL enumeration -> Metal enumeration).            *)
(***************************************************************************)
ToMTLCullMode(cullMode) ==
    CASE cullMode = "Disabled" -> "MTLCullModeNone"
      [] cullMode = "Front"    -> "MTLCullModeFront"
      [] cullMode = "Back"     -> "MTLCullModeBack"

ToMTLTriangleFillMode(polygonMode) ==
    CASE polygonMode = "Fill"      -> "MTLTriangleFillModeFill"
      [] polygonMode = "Wireframe" -> "MTLTriangleFillModeLines"

ToMTLPrimitiveType(topology) ==
    CASE topology = "PointList"     -> "MTLPrimitiveTypePoint"
      [] topology = "LineList"      -> "MTLPrimitiveTypeLine"
      [] topology = "LineStrip"     -> "MTLPrimitiveTypeLineStrip"
      [] topology = "LineLoop"      -> "MTLPrimitiveTypeLineStrip"
      [] topology = "TriangleList"  -> "MTLPrimitiveTypeTriangle"
      [] topology = "TriangleStrip" -> "MTLPrimitiveTypeTriangleStrip"
      [] topology = "Patches3"      -> "MTLPrimitiveTypeTriangle"

ToMTLStencilOperation(op) ==
    CASE op = "Keep"     -> "MTLStencilOperationKeep"
      [] op = "Zero"     -> "MTLStencilOperationZero"
      [] op = "Replace"  -> "MTLStencilOperationReplace"
      [] op = "IncClamp" -> "MTLStencilOperationIncrementClamp"
      [] op = "DecClamp" -> "MTLStencilOperationDecrementClamp"
      [] op = "Invert"   -> "MTLStencilOperationInvert"
      [] op = "IncWrap"  -> "MTLStencilOperationIncrementWrap"
      [] op = "DecWrap"  -> "MTLStencilOperationDecrementWrap"

ToMTLCompareFunction(op) ==
    CASE op = "NeverPass"    -> "MTLCompareFunctionNever"
      [] op = "Less"         -> "MTLCompareFunctionLess"
      [] op = "Equal"        -> "MTLCompareFunctionEqual"
      [] op = "LessEqual"    -> "MTLCompareFunctionLessEqual"
      [] op = "Greater"      -> "MTLCompareFunctionGreater"
      [] op = "NotEqual"     -> "MTLCompareFunctionNotEqual"
      [] op = "GreaterEqual" -> "MTLCompareFunctionGreaterEqual"
      [] op = "AlwaysPass"   -> "MTLCompareFunctionAlways"

ToMTLBlendOperation(arith) ==
    CASE arith = "Add"         -> "MTLBlendOperationAdd"
      [] arith = "Subtract"    -> "MTLBlendOperationSubtract"
      [] arith = "RevSubtract" -> "MTLBlendOperationReverseSubtract"
      [] arith = "Min"         -> "MTLBlendOperationMin"
      [] arith = "Max"         -> "MTLBlendOperationMax"

ToMTLBlendFactor(op) ==
    CASE op = "Zero"           -> "MTLBlendFactorZero"
      [] op = "One"            -> "MTLBlendFactorOne"
      [] op = "SrcColor"       -> "MTLBlendFactorSourceColor"
      [] op = "InvSrcColor"    -> "MTLBlendFactorOneMinusSourceColor"
      [] op = "SrcAlpha"       -> "MTLBlendFactorSourceAlpha"
      [] op = "InvSrcAlpha"    -> "MTLBlendFactorOneMinusSourceAlpha"
      [] op = "DstColor"       -> "MTLBlendFactorDestinationColor"
      [] op = "InvDstColor"    -> "MTLBlendFactorOneMinusDestinationColor"
      [] op = "DstAlpha"       -> "MTLBlendFactorDestinationAlpha"
      [] op = "InvDstAlpha"    -> "MTLBlendFactorOneMinusDestinationAlpha"
      [] op = "BlendFactor"    -> "MTLBlendFactorBlendColor"
      [] op = "InvBlendFactor" -> "MTLBlendFactorOneMinusBlendColor"

ToMTLPatchIndexType(format) ==
    CASE format = "Undefined" -> "MTLTessellationControlPointIndexTypeNone"
      [] format = "R16UInt"   -> "MTLTessellationControlPointIndexTypeUInt16"
      [] format = "R32UInt"   -> "MTLTessellationControlPointIndexTypeUInt32"

ToMTLPartitionMode(partition) ==
    CASE partition = "Integer"        -> "MTLTessellationPartitionModeInteger"
      [] partition = "Pow2"           -> "MTLTessellationPartitionModePow2"
      [] partition = "FractionalOdd"  -> "MTLTessellationPartitionModeFractionalOdd"
      [] partition = "FractionalEven" -> "MTLTessellationPartitionModeFractionalEven"

\* MTBoolean: bool -> BOOL
MTBoolean(b) == IF b THEN "YES" ELSE "NO"

(***************************************************************************)
(* Collaborators: shaders and render passes, referred to by pointer.       *)
(***************************************************************************)
\* MTShader objects: GetNumPatchControlPoints(), GetNative() and the native
\* function's patchType.  Shader 1 is a plain vertex function, 2 a
\* post-tessellation vertex function with three control points, 3 a vertex
\* shader without native function, 4 a tessellation compute kernel, 5 a
\* fragment function.  A shader has control points exactly when its function
\* takes patch input.
Shaders ==
    << [type |-> "Vertex",   numPatchControlPoints |-> 0, hasNative |-> TRUE,  patchType |-> "MTLPatchTypeNone"],
       [type |-> "Vertex",   numPatchControlPoints |-> 3, hasNative |-> TRUE,  patchType |-> "MTLPatchTypeTriangle"],
       [type |-> "Vertex",   numPatchControlPoints |-> 0, hasNative |-> FALSE, patchType |-> "MTLPatchTypeNone"],
       [type |-> "Compute",  numPatchControlPoints |-> 0, hasNative |-> TRUE,  patchType |-> "MTLPatchTypeNone"],
       [type |-> "Fragment", numPatchControlPoints |-> 0, hasNative |-> TRUE,  patchType |-> "MTLPatchTypeNone"] >>

VertexShaderPtrs == {p \in DOMAIN Shaders : Shaders[p].type = "Vertex"}
ComputeShaderPtr == CHOOSE p \in DOMAIN Shaders : Shaders[p].type = "Compute"
FragmentShaderPtr == CHOOSE p \in DOMAIN Shaders : Shaders[p].type = "Fragment"

\* GetNativeMTShader: the native function of a shader, nil for a null shader.
\* A native function is named by the pointer of its shader.
GetNativeMTShader(shader) ==
    IF shader # nullptr /\ Shaders[shader].hasNative THEN shader ELSE nil

PixelFormats == <<"BGRA8Unorm", "RGBA8Unorm", "RGBA16Float">>

\* MTRenderPass objects.  Render pass p (1 <= p <= MaxColorAttachments + 1)
\* has p - 1 colour attachments; the last pointer is the render pass of the
\* swap chain, which callers hand in as the default render pass.
RenderPassPtrs == 1 .. (MaxColorAttachments + 2)
DefaultRenderPassPtr == MaxColorAttachments + 2

MTRenderPass(p) ==
    IF p = DefaultRenderPassPtr
    THEN [colorAttachments  |-> [i \in 0 .. 0 |-> [pixelFormat |-> "BGRA8Unorm_sRGB"]],
          depthAttachment   |-> [pixelFormat |-> "Depth32Float_Stencil8"],
          stencilAttachment |-> [pixelFormat |-> "Depth32Float_Stencil8"],
          sampleCount       |-> 1 + 1]
    ELSE [colorAttachments  |-> [i \in 0 .. (p - 2) |-> [pixelFormat |-> PixelFormats[(i % Len(PixelFormats)) + 1]]],
          depthAttachment   |-> [pixelFormat |-> "Depth32Float"],
          stencilAttachment |-> [pixelFormat |-> "Invalid"],
          sampleCount       |-> 1 + 3]

\* std::vector::size() of an array modelled as a function over 0..n-1.
Size(arr) == Cardinality(DOMAIN arr)

(***************************************************************************)
(* The device: native objects in creation order, and the creation calls    *)
(* issued so far by the construction in progress.                          *)
(***************************************************************************)
\* [device newRenderPipelineStateWithDescriptor:error:]
newRenderPipelineStateWithDescriptor(dev, psoDesc, native) ==
    IF native.renderOK
    THEN [dev    |-> [objects |-> Append(dev.objects, [kind |-> "MTLRenderPipelineState", desc |-> psoDesc]),
                      calls   |-> Append(dev.calls, [call |-> "newRenderPipelineStateWithDescriptor", handle |-> Len(dev.objects) + 1, error |-> ""])],
          handle |-> Len(dev.objects) + 1,
          error  |-> ""]
    ELSE [dev    |-> [dev EXCEPT !.calls = Append(@, [call |-> "newRenderPipelineStateWithDescriptor", handle |-> nil, error |-> native.error])],
          handle |-> nil,
          error  |-> native.error]

\* [device newComputePipelineStateWithFunction:error:]
newComputePipelineStateWithFunction(dev, function, native) ==
    IF native.computeOK /\ function # nil
    THEN [dev    |-> [objects |-> Append(dev.objects, [kind |-> "MTLComputePipelineState", desc |-> [function |-> function]]),
                      calls   |-> Append(dev.calls, [call |-> "newComputePipelineStateWithFunction", handle |-> Len(dev.objects) + 1, error |-> ""])],
          handle |-> Len(dev.objects) + 1,
          error  |-> ""]
    ELSE [dev    |-> [dev EXCEPT !.calls = Append(@, [call |-> "newComputePipelineStateWithFunction", handle |-> nil, error |-> native.error])],
          handle |-> nil,
          error  |-> native.error]

\* [device newDepthStencilStateWithDescriptor:]
newDepthStencilStateWithDescriptor(dev, depthStencilDesc) ==
    [dev    |-> [objects |-> Append(dev.objects, [kind |-> "MTLDepthStencilState", desc |-> depthStencilDesc]),
                 calls   |-> Append(dev.calls, [call |-> "newDepthStencilStateWithDescriptor", handle |-> Len(dev.objects) + 1, error |-> ""])],
     handle |-> Len(dev.objects) + 1]

(***************************************************************************)
(* Exceptions.                                                             *)
(***************************************************************************)
NoException == [type |-> "none", what |-> "", error |-> ""]

\* throw std::invalid_argument(what)
InvalidArgument(what) == [type |-> "InvalidArgument", what |-> what, error |-> ""]

\* MTThrowIfCreateFailed(error, interfaceName): the failure of a native
\* factory, carrying the native error text.
MTThrowIfCreateFailed(error, interfaceName) ==
    [type |-> "BackendCreationFailed", what |-> interfaceName, error |-> error]

(***************************************************************************)
(* State.                                                                  *)
(***************************************************************************)
VARIABLES
    LLGL_OS_IOS,        \* the build defines LLGL_OS_IOS
    clipModeAvailable,  \* @available(macOS 10.11, iOS 11, *)
    desc,               \* the caller's GraphicsPipelineDescriptor object
    defaultRenderPass,  \* the render pass the caller hands in as default
    objects,            \* the device's native objects, by handle
    psos,               \* the MTGraphicsPSO objects construction has returned
    last,               \* the outcome of the latest construction
    numTranslate,       \* constructions attempted
    encoder,            \* the state of the render command encoder
    encoderCalls,       \* the calls the latest Bind issued on the encoder
    threads,            \* where each thread is inside the constructor
    declaredBeforeRWBuffer, \* the StorageBufferType enumerators below RWBuffer
    storageBuffer       \* the latest D3D11StorageBuffer construction

vars == << LLGL_OS_IOS, clipModeAvailable, desc, defaultRenderPass, objects, psos, last,
           numTranslate, encoder, encoderCalls, threads,
           declaredBeforeRWBuffer, storageBuffer >>

(***************************************************************************)
(* Native descriptors, as [[... alloc] init] leaves them.  The field       *)
(* "written" records the properties the translator assigns.                *)
(***************************************************************************)
NoDescriptor == [allocated |-> FALSE]

DefaultColorAttachmentDesc ==
    [pixelFormat                 |-> "MTLPixelFormatInvalid",
     writeMask                   |-> {"Red", "Green", "Blue", "Alpha"},
     blendingEnabled             |-> "NO",
     alphaBlendOperation         |-> "MTLBlendOperationAdd",
     rgbBlendOperation           |-> "MTLBlendOperationAdd",
     destinationAlphaBlendFactor |-> "MTLBlendFactorZero",
     destinationRGBBlendFactor   |-> "MTLBlendFactorZero",
     sourceAlphaBlendFactor      |-> "MTLBlendFactorOne",
     sourceRGBBlendFactor        |-> "MTLBlendFactorOne"]

NewRenderPipelineDescriptor ==
    [allocated                         |-> TRUE,
     written                           |-> {},
     vertexFunction                    |-> nil,
     fragmentFunction                  |-> nil,
     alphaToCoverageEnabled            |-> "NO",
     alphaToOneEnabled                 |-> "NO",
     colorAttachments                  |-> [i \in 0 .. (MaxNativeColorAttachments - 1) |-> DefaultColorAttachmentDesc],
     indexed                           |-> [renderPass |-> {}, native |-> {}, targets |-> {}],
     depthAttachmentPixelFormat        |-> "MTLPixelFormatInvalid",
     stencilAttachmentPixelFormat      |-> "MTLPixelFormatInvalid",
     rasterizationEnabled              |-> "YES",
     rasterSampleCount                 |-> 1,
     maxTessellationFactor             |-> MaxTessFactorIOS,
     tessellationFactorScaleEnabled    |-> "NO",
     tessellationFactorFormat          |-> "MTLTessellationFactorFormatHalf",
     tessellationControlPointIndexType |-> "MTLTessellationControlPointIndexTypeNone",
     tessellationFactorStepFunction    |-> "MTLTessellationFactorStepFunctionConstant",
     tessellationOutputWindingOrder    |-> "MTLWindingClockwise",
     tessellationPartitionMode         |-> "MTLTessellationPartitionModePow2"]

\* An assignment "obj.property = value".
Assign(obj, property, value) ==
    [obj EXCEPT ![property] = value, !.written = @ \cup {property}]

TessellationProperties ==
    {"maxTessellationFactor", "tessellationFactorScaleEnabled", "tessellationFactorFormat",
     "tessellationControlPointIndexType", "tessellationFactorStepFunction",
     "tessellationOutputWindingOrder", "tessellationPartitionMode"}

(***************************************************************************)
(* MTGraphicsPSO::CreateRenderPipelineState and its helpers.               *)
(***************************************************************************)
ToMTLColorWriteMask(color) ==
    (IF color.r THEN {"Red"} ELSE {}) \cup
    (IF color.g THEN {"Green"} ELSE {}) \cup
    (IF color.b THEN {"Blue"} ELSE {}) \cup
    (IF color.a THEN {"Alpha"} ELSE {})

FillColorAttachmentDesc(dst, pixelFormat, blendDesc, targetDesc) ==
    [dst EXCEPT
        !.pixelFormat                 = pixelFormat,
        !.writeMask                   = ToMTLColorWriteMask(targetDesc.colorMask),
        !.blendingEnabled             = IF targetDesc.blendEnabled THEN "YES" ELSE "NO",
        !.alphaBlendOperation         = ToMTLBlendOperation(targetDesc.alphaArithmetic),
        !.rgbBlendOperation           = ToMTLBlendOperation(targetDesc.colorArithmetic),
        !.destinationAlphaBlendFactor = ToMTLBlendFactor(targetDesc.dstAlpha),
        !.destinationRGBBlendFactor   = ToMTLBlendFactor(targetDesc.dstColor),
        !.sourceAlphaBlendFactor      = ToMTLBlendFactor(targetDesc.srcAlpha),
        !.sourceRGBBlendFactor        = ToMTLBlendFactor(targetDesc.srcColor)]

\* GetRenderPass with the swap chain's render pass as a silent fall-back.
GetRenderPass_FallBack(d, defaultRP) ==
    IF d.renderPass # nullptr THEN d.renderPass ELSE DefaultRenderPassPtr

\* GetRenderPass with the default render pass taking priority.
GetRenderPass_DefaultFirst(d, defaultRP) ==
    IF defaultRP # nullptr THEN defaultRP
    ELSE IF d.renderPass # nullptr THEN d.renderPass
    ELSE nullptr

\* The render pass the pipeline is created for; nullptr where the code throws.
GetRenderPass(d, defaultRP) ==
    IF d.renderPass # nullptr THEN d.renderPass
    ELSE IF defaultRP # nullptr THEN defaultRP
    ELSE nullptr

\* ColorAttachmentCount without the limit of the native array.
ColorAttachmentCount_Unclamped(colorAttachments) ==
    Size(colorAttachments)

\* n = std::min(colorAttachments.size(), std::size_t(8u))
ColorAttachmentCount(colorAttachments) ==
    Min(Size(colorAttachments), MaxNativeColorAttachments)

\* BlendTargetIndex with every attachment reading its own target.
BlendTargetIndex_Own(blend, i) ==
    i

\* desc.blend.independentBlendEnabled ? i : 0
BlendTargetIndex(blend, i) ==
    IF blend.independentBlendEnabled THEN i ELSE 0

\* An element read: outside the array the read yields no element of it.
OutOfBounds == [pixelFormat |-> "?", blendEnabled |-> FALSE,
                colorMask |-> [r |-> FALSE, g |-> FALSE, b |-> FALSE, a |-> FALSE],
                srcColor |-> "Zero", dstColor |-> "Zero", colorArithmetic |-> "Add",
                srcAlpha |-> "Zero", dstAlpha |-> "Zero", alphaArithmetic |-> "Add"]
At(arr, i) == IF i \in DOMAIN arr THEN arr[i] ELSE OutOfBounds

\* One iteration of the loop over the colour attachments.
ColorAttachmentStep(psoDesc, i, colorAttachments, blend) ==
    LET t == BlendTargetIndex(blend, i)
        filled == FillColorAttachmentDesc(At(psoDesc.colorAttachments, i),
                                          At(colorAttachments, i).pixelFormat,
                                          blend,
                                          At(blend.targets, t))
    IN [psoDesc EXCEPT
           !.colorAttachments = IF i \in DOMAIN @ THEN [@ EXCEPT ![i] = filled] ELSE @,
           !.indexed = [renderPass |-> @.renderPass \cup {i},
                        native     |-> @.native \cup {i},
                        targets    |-> @.targets \cup {t}]]

\* for (std::size_t i = 0, n = ...; i < n; ++i)
RECURSIVE ColorAttachmentLoop(_, _, _, _, _)
ColorAttachmentLoop(psoDesc, i, n, colorAttachments, blend) ==
    IF i < n
    THEN ColorAttachmentLoop(ColorAttachmentStep(psoDesc, i, colorAttachments, blend),
                             i + 1, n, colorAttachments, blend)
    ELSE psoDesc

\* ClampMaxTessFactor with the limit of the other platforms on every build.
ClampMaxTessFactor_NoIOSLimit(maxTessFactor) ==
    Min(maxTessFactor, MaxTessFactorOther)

\* std::min(desc.tessellation.maxTessFactor, 16u) or (..., 64u)
ClampMaxTessFactor(maxTessFactor) ==
    IF LLGL_OS_IOS THEN Min(maxTessFactor, MaxTessFactorIOS)
    ELSE Min(maxTessFactor, MaxTessFactorOther)

\* The tessellation state of the native descriptor.
FillTessellationState(psoDesc, d) ==
    LET p1 == Assign(psoDesc, "maxTessellationFactor", ClampMaxTessFactor(d.tessellation.maxTessFactor))
        p2 == Assign(p1, "tessellationFactorScaleEnabled", "NO")
        p3 == Assign(p2, "tessellationFactorFormat", "MTLTessellationFactorFormatHalf")
        p4 == Assign(p3, "tessellationControlPointIndexType", ToMTLPatchIndexType(d.tessellation.indexFormat))
        p5 == Assign(p4, "tessellationFactorStepFunction", "MTLTessellationFactorStepFunctionPerPatchAndPerInstance")
        p6 == Assign(p5, "tessellationOutputWindingOrder",
                     IF d.tessellation.outputWindingCCW THEN "MTLWindingCounterClockwise" ELSE "MTLWindingClockwise")
    IN Assign(p6, "tessellationPartitionMode", ToMTLPartitionMode(d.tessellation.partition))

\* RasterizationEnabled with the discard flag taken as the enable flag.
RasterizationEnabled_Discard(d) ==
    IF d.rasterizer.discardEnabled THEN "YES" ELSE "NO"

\* psoDesc.rasterizationEnabled = (desc.rasterizer.discardEnabled ? NO : YES)
RasterizationEnabled(d) ==
    IF d.rasterizer.discardEnabled THEN "NO" ELSE "YES"

\* RasterSampleCount without regard to multiSampleEnabled.
RasterSampleCount_Always(d, rp) ==
    rp.sampleCount

\* The sample count of the render pass, or 1 without multi-sampling.
RasterSampleCount(d, rp) ==
    IF d.rasterizer.multiSampleEnabled THEN rp.sampleCount ELSE 1

\* FillRenderPipelineDesc with the tessellation state filled in for every
\* vertex shader.
FillRenderPipelineDesc_Ungated(self, d, renderPassMT) ==
    LET rp == MTRenderPass(renderPassMT)
        p1 == Assign(NewRenderPipelineDescriptor, "alphaToCoverageEnabled", MTBoolean(d.blend.alphaToCoverageEnabled))
        p2 == Assign(p1, "alphaToOneEnabled", "NO")
        p3 == Assign(p2, "fragmentFunction", GetNativeMTShader(d.fragmentShader))
        p4 == Assign(p3, "vertexFunction", GetNativeMTShader(d.vertexShader))
        p5 == ColorAttachmentLoop(p4, 0, ColorAttachmentCount(rp.colorAttachments),
                                  rp.colorAttachments, d.blend)
        p6 == Assign(p5, "depthAttachmentPixelFormat", rp.depthAttachment.pixelFormat)
        p7 == Assign(p6, "stencilAttachmentPixelFormat", rp.stencilAttachment.pixelFormat)
        p8 == Assign(p7, "rasterizationEnabled", RasterizationEnabled(d))
        p9 == Assign(p8, "rasterSampleCount", RasterSampleCount(d, rp))
    IN FillTessellationState(p9, d)

\* The native descriptor of the render pipeline.
FillRenderPipelineDesc(self, d, renderPassMT) ==
    LET rp == MTRenderPass(renderPassMT)
        p1 == Assign(NewRenderPipelineDescriptor, "alphaToCoverageEnabled", MTBoolean(d.blend.alphaToCoverageEnabled))
        p2 == Assign(p1, "alphaToOneEnabled", "NO")
        p3 == Assign(p2, "fragmentFunction", GetNativeMTShader(d.fragmentShader))
        p4 == Assign(p3, "vertexFunction", GetNativeMTShader(d.vertexShader))
        p5 == ColorAttachmentLoop(p4, 0, ColorAttachmentCount(rp.colorAttachments),
                                  rp.colorAttachments, d.blend)
        p6 == Assign(p5, "depthAttachmentPixelFormat", rp.depthAttachment.pixelFormat)
        p7 == Assign(p6, "stencilAttachmentPixelFormat", rp.stencilAttachment.pixelFormat)
        p8 == Assign(p7, "rasterizationEnabled", RasterizationEnabled(d))
        p9 == Assign(p8, "rasterSampleCount", RasterSampleCount(d, rp))
    IN IF self.numPatchControlPoints_ > 0 THEN FillTessellationState(p9, d) ELSE p9

\* The compute pipeline of the tessellation stage, created after the render
\* pipeline.
CreateTessPipelineState(self, dev, psoDesc, d, native) ==
    IF self.numPatchControlPoints_ > 0
    THEN IF d.tessControlShader # nullptr
         THEN LET r == newComputePipelineStateWithFunction(dev, GetNativeMTShader(d.tessControlShader), native)
                  s == [self EXCEPT !.tessPipelineState_ = r.handle]
              IN IF r.handle = nil
                 THEN [self |-> s, dev |-> r.dev, psoDesc |-> psoDesc,
                       exc |-> MTThrowIfCreateFailed(r.error, "MTLComputePipelineState")]
                 ELSE [self |-> s, dev |-> r.dev, psoDesc |-> psoDesc, exc |-> NoException]
         ELSE [self |-> self, dev |-> dev, psoDesc |-> psoDesc,
               exc |-> InvalidArgument("cannot create Metal tessellation pipeline without tessellation compute shader")]
    ELSE [self |-> self, dev |-> dev, psoDesc |-> psoDesc, exc |-> NoException]

\* CreateNativeRenderPipeline with a second attempt when the factory fails.
CreateNativeRenderPipeline_Retry(self, dev, psoDesc, d, native) ==
    LET r0 == newRenderPipelineStateWithDescriptor(dev, psoDesc, native)
        r == IF r0.handle = nil
             THEN newRenderPipelineStateWithDescriptor(r0.dev, psoDesc, native)
             ELSE r0
        s == [self EXCEPT !.renderPipelineState_ = r.handle]
    IN IF r.handle = nil
       THEN [self |-> s, dev |-> r.dev, psoDesc |-> psoDesc,
             exc |-> MTThrowIfCreateFailed(r.error, "MTLRenderPipelineState")]
       ELSE CreateTessPipelineState(s, r.dev, psoDesc, d, native)

\* CreateNativeRenderPipeline without the test of the factory's result.
CreateNativeRenderPipeline_Unchecked(self, dev, psoDesc, d, native) ==
    LET r == newRenderPipelineStateWithDescriptor(dev, psoDesc, native)
        s == [self EXCEPT !.renderPipelineState_ = r.handle]
    IN CreateTessPipelineState(s, r.dev, psoDesc, d, native)

\* The render pipeline, created from the filled descriptor.
CreateNativeRenderPipeline(self, dev, psoDesc, d, native) ==
    LET r == newRenderPipelineStateWithDescriptor(dev, psoDesc, native)
        s == [self EXCEPT !.renderPipelineState_ = r.handle]
    IN IF r.handle = nil
       THEN [self |-> s, dev |-> r.dev, psoDesc |-> psoDesc,
             exc |-> MTThrowIfCreateFailed(r.error, "MTLRenderPipelineState")]
       ELSE CreateTessPipelineState(s, r.dev, psoDesc, d, native)

\* The patch metadata taken from the vertex shader.
GetPatchMetadata(self, vertexShaderMT) ==
    [self EXCEPT
        !.numPatchControlPoints_ = Shaders[vertexShaderMT].numPatchControlPoints,
        !.patchType_ = IF GetNativeMTShader(vertexShaderMT) # nil
                       THEN Shaders[vertexShaderMT].patchType ELSE @]

\* The function from the render pass on: the vertex shader is not null.
CreateWithVertexShader(self, dev, d, defaultRP, native) ==
    LET s1 == GetPatchMetadata(self, d.vertexShader)
        renderPassMT == GetRenderPass(d, defaultRP)
    IN IF renderPassMT = nullptr
       THEN [self |-> s1, dev |-> dev, psoDesc |-> NoDescriptor,
             exc |-> InvalidArgument("cannot create graphics pipeline without render pass")]
       ELSE CreateNativeRenderPipeline(s1, dev, FillRenderPipelineDesc(s1, d, renderPassMT), d, native)

\* CreateRenderPipelineState with the vertex shader checked only after the
\* native factory has been called.
CreateRenderPipelineState_LateCheck(self, dev, d, defaultRP, native) ==
    IF d.vertexShader = nullptr
    THEN [self |-> self,
          dev |-> newRenderPipelineStateWithDescriptor(dev, NewRenderPipelineDescriptor, native).dev,
          psoDesc |-> NewRenderPipelineDescriptor,
          exc |-> InvalidArgument("cannot create Metal pipeline without vertex shader")]
    ELSE CreateWithVertexShader(self, dev, d, defaultRP, native)

CreateRenderPipelineState(self, dev, d, defaultRP, native) ==
    IF d.vertexShader = nullptr
    THEN [self |-> self, dev |-> dev, psoDesc |-> NoDescriptor,
          exc |-> InvalidArgument("cannot create Metal pipeline without vertex shader")]
    ELSE CreateWithVertexShader(self, dev, d, defaultRP, native)

(***************************************************************************)
(* MTGraphicsPSO::CreateDepthStencilState and its helpers.                 *)
(***************************************************************************)
NewStencilDescriptor ==
    [stencilFailureOperation   |-> "MTLStencilOperationKeep",
     depthFailureOperation     |-> "MTLStencilOperationKeep",
     depthStencilPassOperation |-> "MTLStencilOperationKeep",
     stencilCompareFunction    |-> "MTLCompareFunctionAlways",
     readMask                  |-> 255,
     writeMask                 |-> 255]

NewDepthStencilDescriptor ==
    [allocated            |-> TRUE,
     depthWriteEnabled    |-> "NO",
     depthCompareFunction |-> "MTLCompareFunctionAlways",
     frontFaceStencil     |-> NewStencilDescriptor,
     backFaceStencil      |-> NewStencilDescriptor]

\* static void Convert(MTLStencilDescriptor* dst, const StencilFaceDescriptor& src)
Convert(dst, src) ==
    [dst EXCEPT
        !.stencilFailureOperation   = ToMTLStencilOperation(src.stencilFailOp),
        !.depthFailureOperation     = ToMTLStencilOperation(src.depthFailOp),
        !.depthStencilPassOperation = ToMTLStencilOperation(src.depthPassOp),
        !.stencilCompareFunction    = ToMTLCompareFunction(src.compareOp),
        !.readMask                  = src.readMask,
        !.writeMask                 = src.writeMask]

\* FillDefaultMTStencilDesc that leaves the masks of a new native descriptor.
FillDefaultMTStencilDesc_KeepMasks(dst) ==
    [dst EXCEPT
        !.stencilFailureOperation   = "MTLStencilOperationKeep",
        !.depthFailureOperation     = "MTLStencilOperationKeep",
        !.depthStencilPassOperation = "MTLStencilOperationKeep",
        !.stencilCompareFunction    = "MTLCompareFunctionAlways"]

FillDefaultMTStencilDesc(dst) ==
    [dst EXCEPT
        !.stencilFailureOperation   = "MTLStencilOperationKeep",
        !.depthFailureOperation     = "MTLStencilOperationKeep",
        !.depthStencilPassOperation = "MTLStencilOperationKeep",
        !.stencilCompareFunction    = "MTLCompareFunctionAlways",
        !.readMask                  = 0,
        !.writeMask                 = 0]

\* FillDepthState with the write flag tied to the depth test.
FillDepthState_WriteGated(depthStencilDesc, d) ==
    [depthStencilDesc EXCEPT
        !.depthWriteEnabled    = MTBoolean(d.depth.testEnabled /\ d.depth.writeEnabled),
        !.depthCompareFunction = IF d.depth.testEnabled
                                 THEN ToMTLCompareFunction(d.depth.compareOp)
                                 ELSE "MTLCompareFunctionAlways"]

\* Depth write flag and depth comparison.
FillDepthState(depthStencilDesc, d) ==
    [depthStencilDesc EXCEPT
        !.depthWriteEnabled    = MTBoolean(d.depth.writeEnabled),
        !.depthCompareFunction = IF d.depth.testEnabled
                                 THEN ToMTLCompareFunction(d.depth.compareOp)
                                 ELSE "MTLCompareFunctionAlways"]

\* Stencil state of the two faces.
FillStencilState(depthStencilDesc, d) ==
    [depthStencilDesc EXCEPT
        !.frontFaceStencil     = IF d.stencil.testEnabled
                                 THEN Convert(@, d.stencil.front)
                                 ELSE FillDefaultMTStencilDesc(@),
        !.backFaceStencil      = IF d.stencil.testEnabled
                                 THEN Convert(@, d.stencil.back)
                                 ELSE FillDefaultMTStencilDesc(@)]

\* The native depth-stencil descriptor.
FillDepthStencilDesc(d) ==
    FillStencilState(FillDepthState(NewDepthStencilDescriptor, d), d)

\* StoreStencilReference that keeps the references only with the stencil
\* test enabled.
StoreStencilReference_WhenTested(self, d) ==
    IF d.stencil.testEnabled
    THEN [self EXCEPT
            !.stencilFrontRef_   = d.stencil.front.reference,
            !.stencilBackRef_    = d.stencil.back.reference,
            !.stencilRefDynamic_ = d.stencil.referenceDynamic]
    ELSE [self EXCEPT !.stencilRefDynamic_ = d.stencil.referenceDynamic]

\* The stencil reference values kept for Bind.
StoreStencilReference(self, d) ==
    [self EXCEPT
        !.stencilFrontRef_   = d.stencil.front.reference,
        !.stencilBackRef_    = d.stencil.back.reference,
        !.stencilRefDynamic_ = d.stencil.referenceDynamic]

CreateDepthStencilState(self, dev, d) ==
    LET depthStencilDesc == FillDepthStencilDesc(d)
        s1 == StoreStencilReference(self, d)
        r == newDepthStencilStateWithDescriptor(dev, depthStencilDesc)
    IN [self |-> [s1 EXCEPT !.depthStencilState_ = r.handle], dev |-> r.dev]

(***************************************************************************)
(* MTGraphicsPSO::MTGraphicsPSO.                                           *)
(***************************************************************************)
\* PipelineStateUtils: whether a blend target refers to the static blend
\* factor while the blend factor is not dynamic.
IsStaticBlendFactorEnabled(blend) ==
    /\ ~blend.blendFactorDynamic
    /\ \E i \in DOMAIN blend.targets :
          {blend.targets[i].srcColor, blend.targets[i].dstColor,
           blend.targets[i].srcAlpha, blend.targets[i].dstAlpha}
             \cap {"BlendFactor", "InvBlendFactor"} # {}

\* The object before the constructor's body runs.
NewMTGraphicsPSO ==
    [isGraphicsPSO          |-> TRUE,
     renderPipelineState_   |-> nil,
     depthStencilState_     |-> nil,
     tessPipelineState_     |-> nil,
     cullMode_              |-> "MTLCullModeNone",
     winding_               |-> "MTLWindingClockwise",
     fillMode_              |-> "MTLTriangleFillModeFill",
     primitiveType_         |-> "MTLPrimitiveTypeTriangle",
     clipMode_              |-> "MTLDepthClipModeClip",
     depthBias_             |-> 0,
     depthSlope_            |-> 0,
     depthClamp_            |-> 0,
     blendColorDynamic_     |-> FALSE,
     blendColorEnabled_     |-> FALSE,
     blendColor_            |-> <<0, 0, 0, 0>>,
     numPatchControlPoints_ |-> 0,
     patchType_             |-> "MTLPatchTypeNone",
     stencilFrontRef_       |-> 0,
     stencilBackRef_        |-> 0,
     stencilRefDynamic_     |-> FALSE]

\* "Convert standalone parameters"
ConvertStandaloneParameters(self, d) ==
    [self EXCEPT
        !.cullMode_          = ToMTLCullMode(d.rasterizer.cullMode),
        !.winding_           = IF d.rasterizer.frontCCW THEN "MTLWindingCounterClockwise" ELSE "MTLWindingClockwise",
        !.fillMode_          = ToMTLTriangleFillMode(d.rasterizer.polygonMode),
        !.primitiveType_     = ToMTLPrimitiveType(d.primitiveTopology),
        !.clipMode_          = IF d.rasterizer.depthClampEnabled THEN "MTLDepthClipModeClamp" ELSE "MTLDepthClipModeClip",
        !.depthBias_         = d.rasterizer.depthBias.constantFactor,
        !.depthSlope_        = d.rasterizer.depthBias.slopeFactor,
        !.depthClamp_        = d.rasterizer.depthBias.clamp,
        !.blendColorDynamic_ = d.blend.blendFactorDynamic,
        !.blendColorEnabled_ = IsStaticBlendFactorEnabled(d.blend),
        !.blendColor_        = <<d.blend.blendFactor.r, d.blend.blendFactor.g,
                                 d.blend.blendFactor.b, d.blend.blendFactor.a>>]

\* The constructor: the object, the device and the native descriptor it
\* leaves, and the exception that ended it, if any.
MTGraphicsPSO(dev, d, defaultRP, native) ==
    LET s1 == ConvertStandaloneParameters(NewMTGraphicsPSO, d)
        r1 == CreateRenderPipelineState(s1, dev, d, defaultRP, native)
    IN IF r1.exc.type # "none"
       THEN r1
       ELSE LET r2 == CreateDepthStencilState(r1.self, r1.dev, d)
            IN [self |-> r2.self, dev |-> r2.dev, psoDesc |-> r1.psoDesc, exc |-> NoException]

(***************************************************************************)
(* MTGraphicsPSO::Bind.  An encoder context is the encoder's state and the *)
(* calls issued on it, in order.                                           *)
(***************************************************************************)
\* A render command encoder as the command buffer hands it out.
NewRenderCommandEncoder ==
    [renderPipelineState |-> nil,
     depthStencilState   |-> nil,
     cullMode            |-> "MTLCullModeNone",
     winding             |-> "MTLWindingClockwise",
     fillMode            |-> "MTLTriangleFillModeFill",
     depthClipMode       |-> "MTLDepthClipModeClip",
     depthBias           |-> <<0, 0, 0>>,
     stencilFrontRef     |-> 0,
     stencilBackRef      |-> 0,
     blendColor          |-> <<0, 0, 0, 0>>]

\* One call on the encoder: the state it sets and its record in the log.
\* ctx also carries the members of the object Bind runs on.
Call(ctx, name, args, state) ==
    [ctx EXCEPT !.encoder = state,
                !.calls = Append(ctx.calls, [call |-> name, args |-> args])]

\* BindPipelineStates with its two calls exchanged.
BindPipelineStates_DepthStencilFirst(self, ctx) ==
    LET c1 == Call(ctx, "setDepthStencilState", <<self.depthStencilState_>>,
                   [ctx.encoder EXCEPT !.depthStencilState = self.depthStencilState_])
    IN Call(c1, "setRenderPipelineState", <<self.renderPipelineState_>>,
            [c1.encoder EXCEPT !.renderPipelineState = self.renderPipelineState_])

BindPipelineStates(self, ctx) ==
    LET c1 == Call(ctx, "setRenderPipelineState", <<self.renderPipelineState_>>,
                   [ctx.encoder EXCEPT !.renderPipelineState = self.renderPipelineState_])
    IN Call(c1, "setDepthStencilState", <<self.depthStencilState_>>,
            [c1.encoder EXCEPT !.depthStencilState = self.depthStencilState_])

BindRasterizerState(self, ctx) ==
    LET c1 == Call(ctx, "setCullMode", <<self.cullMode_>>,
                   [ctx.encoder EXCEPT !.cullMode = self.cullMode_])
        c2 == Call(c1, "setFrontFacingWinding", <<self.winding_>>,
                   [c1.encoder EXCEPT !.winding = self.winding_])
    IN Call(c2, "setTriangleFillMode", <<self.fillMode_>>,
            [c2.encoder EXCEPT !.fillMode = self.fillMode_])

\* BindDepthClipMode without the availability test.
BindDepthClipMode_Ungated(self, ctx) ==
    Call(ctx, "setDepthClipMode", <<self.clipMode_>>,
         [ctx.encoder EXCEPT !.depthClipMode = self.clipMode_])

BindDepthClipMode(self, ctx) ==
    IF clipModeAvailable
    THEN Call(ctx, "setDepthClipMode", <<self.clipMode_>>,
              [ctx.encoder EXCEPT !.depthClipMode = self.clipMode_])
    ELSE ctx

BindDepthBias(self, ctx) ==
    Call(ctx, "setDepthBias", <<self.depthBias_, self.depthSlope_, self.depthClamp_>>,
         [ctx.encoder EXCEPT !.depthBias = <<self.depthBias_, self.depthSlope_, self.depthClamp_>>])

\* BindStencilReference that always uses the single-value call.
BindStencilReference_FrontOnly(self, ctx) ==
    IF ~self.stencilRefDynamic_
    THEN Call(ctx, "setStencilReferenceValue", <<self.stencilFrontRef_>>,
              [ctx.encoder EXCEPT !.stencilFrontRef = self.stencilFrontRef_,
                                  !.stencilBackRef  = self.stencilFrontRef_])
    ELSE ctx

\* BindStencilReference without regard to the dynamic flag.
BindStencilReference_Always(self, ctx) ==
    IF self.stencilFrontRef_ # self.stencilBackRef_
    THEN Call(ctx, "setStencilFrontReferenceValue", <<self.stencilFrontRef_, self.stencilBackRef_>>,
              [ctx.encoder EXCEPT !.stencilFrontRef = self.stencilFrontRef_,
                                  !.stencilBackRef  = self.stencilBackRef_])
    ELSE Call(ctx, "setStencilReferenceValue", <<self.stencilFrontRef_>>,
              [ctx.encoder EXCEPT !.stencilFrontRef = self.stencilFrontRef_,
                                  !.stencilBackRef  = self.stencilFrontRef_])

BindStencilReference(self, ctx) ==
    IF ~self.stencilRefDynamic_
    THEN IF self.stencilFrontRef_ # self.stencilBackRef_
         THEN Call(ctx, "setStencilFrontReferenceValue", <<self.stencilFrontRef_, self.stencilBackRef_>>,
                   [ctx.encoder EXCEPT !.stencilFrontRef = self.stencilFrontRef_,
                                       !.stencilBackRef  = self.stencilBackRef_])
         ELSE Call(ctx, "setStencilReferenceValue", <<self.stencilFrontRef_>>,
                   [ctx.encoder EXCEPT !.stencilFrontRef = self.stencilFrontRef_,
                                       !.stencilBackRef  = self.stencilFrontRef_])
    ELSE ctx

\* #ifndef LLGL_OS_IOS ... #endif
BindUnlessIOS(self, ctx) ==
    IF ~LLGL_OS_IOS
    THEN BindStencilReference(self, BindDepthBias(self, ctx))
    ELSE ctx

\* BindBlendColor that sets the blend constant on the first Bind only and
\* remembers that in the object.
BindBlendColor_Once(self, ctx) ==
    IF self.blendColorEnabled_
    THEN [Call(ctx, "setBlendColorRed", self.blendColor_,
               [ctx.encoder EXCEPT !.blendColor = self.blendColor_])
            EXCEPT !.self.blendColorEnabled_ = FALSE]
    ELSE ctx

\* BindBlendColor without the test of blendColorEnabled_.
BindBlendColor_Unconditional(self, ctx) ==
    Call(ctx, "setBlendColorRed", self.blendColor_,
         [ctx.encoder EXCEPT !.blendColor = self.blendColor_])

BindBlendColor(self, ctx) ==
    IF self.blendColorEnabled_
    THEN Call(ctx, "setBlendColorRed", self.blendColor_,
              [ctx.encoder EXCEPT !.blendColor = self.blendColor_])
    ELSE ctx

BindPSO(self, renderEncoder) ==
    BindBlendColor(self,
      BindUnlessIOS(self,
        BindDepthClipMode(self,
          BindRasterizerState(self,
            BindPipelineStates(self, [encoder |-> renderEncoder, calls |-> <<>>,
                                      self |-> self])))))

(***************************************************************************)
(* The descriptors callers hand in.                                        *)
(***************************************************************************)
DefaultBlendTarget ==
    [blendEnabled |-> FALSE,
     srcColor |-> "SrcAlpha", dstColor |-> "InvSrcAlpha", colorArithmetic |-> "Add",
     srcAlpha |-> "SrcAlpha", dstAlpha |-> "InvSrcAlpha", alphaArithmetic |-> "Add",
     colorMask |-> [r |-> TRUE, g |-> TRUE, b |-> TRUE, a |-> TRUE]]

TargetIndices == 0 .. (NumBlendTargets - 1)

DefaultTargets == [i \in TargetIndices |-> DefaultBlendTarget]

\* Targets that differ from one another in every field.
BlendOps == <<"One", "Zero", "SrcColor", "DstAlpha", "InvDstColor", "SrcAlpha", "InvSrcAlpha", "DstColor">>
BlendArithmetics == <<"Subtract", "Add", "RevSubtract", "Min", "Max">>

DistinctTargets(k) ==
    [i \in TargetIndices |->
        [blendEnabled    |-> ((i + k) % 2 = 0),
         srcColor        |-> BlendOps[((i + k) % Len(BlendOps)) + 1],
         dstColor        |-> BlendOps[((i + k + 1) % Len(BlendOps)) + 1],
         colorArithmetic |-> BlendArithmetics[((i + k) % Len(BlendArithmetics)) + 1],
         srcAlpha        |-> BlendOps[((i + k + 2) % Len(BlendOps)) + 1],
         dstAlpha        |-> BlendOps[((i + k + 3) % Len(BlendOps)) + 1],
         alphaArithmetic |-> BlendArithmetics[((i + k + 1) % Len(BlendArithmetics)) + 1],
         colorMask       |-> [r |-> (i % 2 = 0), g |-> (i % 3 = 0), b |-> (i + k) % 2 = 1, a |-> i < 4]]]

DefaultStencilFace ==
    [stencilFailOp |-> "Keep", depthFailOp |-> "Keep", depthPassOp |-> "Keep",
     compareOp |-> "Less", readMask |-> 255, writeMask |-> 255, reference |-> 0]

BaseDesc ==
    [vertexShader      |-> 1,
     fragmentShader    |-> FragmentShaderPtr,
     tessControlShader |-> nullptr,
     renderPass        |-> 2,
     primitiveTopology |-> "TriangleList",
     rasterizer   |-> [cullMode |-> "Disabled", frontCCW |-> FALSE, polygonMode |-> "Fill",
                       depthClampEnabled |-> FALSE, discardEnabled |-> FALSE,
                       multiSampleEnabled |-> FALSE,
                       depthBias |-> [constantFactor |-> 0, slopeFactor |-> 0, clamp |-> 0]],
     blend        |-> [alphaToCoverageEnabled |-> FALSE, independentBlendEnabled |-> FALSE,
                       blendFactorDynamic |-> FALSE,
                       blendFactor |-> [r |-> 0, g |-> 0, b |-> 0, a |-> 0],
                       targets |-> DefaultTargets],
     depth        |-> [testEnabled |-> FALSE, writeEnabled |-> FALSE, compareOp |-> "Less"],
     stencil      |-> [testEnabled |-> FALSE, referenceDynamic |-> FALSE,
                       front |-> DefaultStencilFace, back |-> DefaultStencilFace],
     tessellation |-> [maxTessFactor |-> 64, indexFormat |-> "Undefined",
                       outputWindingCCW |-> FALSE, partition |-> "Integer"]]

\* Shader stages, render pass and tessellation; the tessellation factor
\* varies where the vertex shader is the post-tessellation one.
AllStageDescs ==
    {[BaseDesc EXCEPT !.vertexShader = vs, !.tessControlShader = tcs, !.renderPass = rp,
                      !.primitiveTopology = IF vs = 2 THEN "Patches3" ELSE @,
                      !.tessellation = [maxTessFactor |-> mtf, indexFormat |-> "R16UInt",
                                        outputWindingCCW |-> TRUE, partition |-> "FractionalOdd"]] :
        vs \in {nullptr} \cup VertexShaderPtrs, tcs \in {nullptr, ComputeShaderPtr},
        rp \in {nullptr, 2}, mtf \in {8, 17, 65}}

StageDescs ==
    {d \in AllStageDescs : d.vertexShader = 2 \/ d.tessellation.maxTessFactor = 8}

\* Colour attachments and blend targets.
AttachmentDescs ==
    {[BaseDesc EXCEPT !.renderPass = rp, !.blend.independentBlendEnabled = ind,
                      !.blend.targets = DistinctTargets(k)] :
        rp \in {1, 2, 3, MaxColorAttachments, MaxColorAttachments + 1},
        ind \in BOOLEAN, k \in {0, 1}}

\* Depth and stencil state.
StencilDescs ==
    {[BaseDesc EXCEPT !.stencil = [testEnabled |-> te, referenceDynamic |-> dyn,
                                   front |-> [DefaultStencilFace EXCEPT !.reference = f, !.depthPassOp = "Replace"],
                                   back  |-> [DefaultStencilFace EXCEPT !.reference = b, !.compareOp = "AlwaysPass",
                                                                         !.readMask = 0, !.writeMask = 0]]] :
        te \in BOOLEAN, dyn \in BOOLEAN, f \in {0, 1}, b \in {0, 1}}

DepthDescs ==
    {[BaseDesc EXCEPT !.depth = [testEnabled |-> te, writeEnabled |-> we, compareOp |-> op]] :
        te \in BOOLEAN, we \in BOOLEAN, op \in {"Less", "AlwaysPass"}}

\* Rasterizer state and the blend constant.
RasterizerDescs ==
    {[BaseDesc EXCEPT !.rasterizer = [cullMode |-> cm, frontCCW |-> ccw,
                                      polygonMode |-> IF ccw THEN "Wireframe" ELSE "Fill",
                                      depthClampEnabled |-> dc, discardEnabled |-> (cm = "Front"),
                                      multiSampleEnabled |-> dc,
                                      depthBias |-> [constantFactor |-> IF ccw THEN 1 ELSE 0,
                                                     slopeFactor |-> IF dc THEN 2 ELSE 0,
                                                     clamp |-> IF cm = "Back" THEN 3 ELSE 0]]] :
        cm \in {"Disabled", "Front", "Back"}, ccw \in BOOLEAN, dc \in BOOLEAN}

BlendFactorDescs ==
    {[BaseDesc EXCEPT !.blend.blendFactorDynamic = dyn,
                      !.blend.blendFactor = [r |-> 1, g |-> 2, b |-> 3, a |-> 4],
                      !.blend.targets[t].blendEnabled = TRUE,
                      !.blend.targets[t].srcColor = op] :
        dyn \in BOOLEAN, t \in {0, 1}, op \in {"BlendFactor", "One"}}

Descs ==
    StageDescs \cup AttachmentDescs \cup StencilDescs \cup DepthDescs
        \cup RasterizerDescs \cup BlendFactorDescs

\* What a native factory does with a call is the device's choice.
ErrorTexts == {"Fragment shader output mismatch", "Out of memory"}
NativeOutcomes == [renderOK : BOOLEAN, computeOK : BOOLEAN, error : ErrorTexts]

(***************************************************************************)
(* Initial state and actions.                                              *)
(***************************************************************************)
\* A thread that is not inside a construction.
Threads == 1 .. NumThreads
IdleThread ==
    [pc |-> "idle", self |-> NewMTGraphicsPSO, psoDesc |-> NoDescriptor, exc |-> NoException]

(***************************************************************************)
(* D3D11StorageBuffer.  A flag word is the set of the flags it holds: 0 is *)
(* {} and |= adds a flag.  The declaration of StorageBufferType lies       *)
(* outside this file; the one ordered comparison made on it is with        *)
(* RWBuffer, so of the declaration order the state keeps the enumerators   *)
(* that come before RWBuffer.  "Buffer" stands for the enumerators this    *)
(* file does not name.                                                     *)
(***************************************************************************)
StorageBufferType ==
    {"Buffer", "StructuredBuffer", "ByteAddressBuffer", "RWBuffer", "RWStructuredBuffer",
     "RWByteAddressBuffer", "AppendStructuredBuffer", "ConsumeStructuredBuffer"}

BufferDescriptors ==
    [size          : 0 .. MaxSize,
     storageBuffer : [storageType : StorageBufferType, elements : 0 .. MaxElements]]

HRESULTs == {"S_OK", "E_FAIL"}

\* A ComPtr that holds no object, and one that holds the object created
\* from a descriptor.
NullComPtr == [null |-> TRUE, desc |-> NoDescriptor]
ComPtrTo(d) == [null |-> FALSE, desc |-> d]

\* The members before the constructor body runs.
NewD3D11StorageBuffer ==
    [storageType_     |-> "Buffer",
     resource         |-> NullComPtr,
     uav_             |-> NullComPtr,
     srv_             |-> NullComPtr,
     cpuAccessBuffer_ |-> NullComPtr]

\* DXThrowIfFailed(hr, info)
DXThrowIfFailed(hr, info) ==
    IF hr = "S_OK" THEN NoException ELSE [type |-> "DXError", what |-> info, error |-> hr]

\* storageType_ >= StorageBufferType::RWBuffer
IsUAV(self) == self.storageType_ \notin declaredBeforeRWBuffer

IsStructured(self) ==
    \/ self.storageType_ = "StructuredBuffer"
    \/ self.storageType_ = "RWStructuredBuffer"
    \/ self.storageType_ = "AppendStructuredBuffer"
    \/ self.storageType_ = "ConsumeStructuredBuffer"

IsByteAddressable(self) ==
    \/ self.storageType_ = "ByteAddressBuffer"
    \/ self.storageType_ = "RWByteAddressBuffer"

GetBindFlags(self) ==
    IF IsUAV(self) THEN {"D3D11_BIND_UNORDERED_ACCESS"} ELSE {"D3D11_BIND_SHADER_RESOURCE"}

GetMiscFlags(self) ==
    IF IsStructured(self)
    THEN {"D3D11_RESOURCE_MISC_BUFFER_STRUCTURED"}
    ELSE IF IsByteAddressable(self)
         THEN {"D3D11_RESOURCE_MISC_BUFFER_ALLOW_RAW_VIEWS"}
         ELSE {}

\* A device call made by the construction in progress `c`.
DeviceCall(c, name, d) == [c EXCEPT !.calls = Append(@, [name |-> name, desc |-> d])]

\* D3D11Buffer::CreateResource: creates the hardware buffer on the device.
CreateResource(c, bufferDesc, hr) ==
    LET called == DeviceCall(c, "CreateBuffer", bufferDesc)
    IN  IF hr = "S_OK"
        THEN [called EXCEPT !.self.resource = ComPtrTo(bufferDesc)]
        ELSE [called EXCEPT !.exc = DXThrowIfFailed(hr, "failed to create D3D11 buffer")]

\* UnorderedAccessViewDesc that gives the consume type the append flag.
UnorderedAccessViewDesc_AppendForConsume(self, firstElement, numElements) ==
    [Format        |-> IF IsByteAddressable(self)
                       THEN "DXGI_FORMAT_R32_TYPELESS" ELSE "DXGI_FORMAT_UNKNOWN",
     ViewDimension |-> "D3D11_UAV_DIMENSION_BUFFER",
     Buffer        |-> [FirstElement |-> firstElement,
                        NumElements  |-> numElements,
                        Flags        |-> IF IsByteAddressable(self)
                                         THEN {"D3D11_BUFFER_UAV_FLAG_RAW"}
                                         ELSE IF self.storageType_ \in {"AppendStructuredBuffer",
                                                                        "ConsumeStructuredBuffer"}
                                              THEN {"D3D11_BUFFER_UAV_FLAG_APPEND"}
                                              ELSE {}]]

\* The descriptor CreateUAV fills in.
UnorderedAccessViewDesc(self, firstElement, numElements) ==
    LET unknown == [Format        |-> "DXGI_FORMAT_UNKNOWN",
                    ViewDimension |-> "D3D11_UAV_DIMENSION_BUFFER",
                    Buffer        |-> [FirstElement |-> firstElement,
                                       NumElements  |-> numElements,
                                       Flags        |-> {}]]
    IN  IF IsByteAddressable(self)
        THEN [unknown EXCEPT !.Format = "DXGI_FORMAT_R32_TYPELESS",
                             !.Buffer.Flags = @ \cup {"D3D11_BUFFER_UAV_FLAG_RAW"}]
        ELSE IF self.storageType_ = "AppendStructuredBuffer"
             THEN [unknown EXCEPT !.Buffer.Flags = @ \cup {"D3D11_BUFFER_UAV_FLAG_APPEND"}]
             ELSE IF self.storageType_ = "ConsumeStructuredBuffer"
                  THEN [unknown EXCEPT !.Buffer.Flags = @ \cup {"D3D11_BUFFER_UAV_FLAG_COUNTER"}]
                  ELSE unknown

CreateUAV(c, firstElement, numElements, hr) ==
    LET d      == UnorderedAccessViewDesc(c.self, firstElement, numElements)
        called == DeviceCall(c, "CreateUnorderedAccessView", d)
    IN  IF hr = "S_OK"
        THEN [called EXCEPT !.self.uav_ = ComPtrTo(d)]
        ELSE [called EXCEPT !.exc = DXThrowIfFailed(hr,
                 "failed to create D3D11 unordered-acces-view (UAV) for storage buffer")]

\* The descriptor CreateSRV fills in.
ShaderResourceViewDesc(firstElement, numElements) ==
    [Format        |-> "DXGI_FORMAT_UNKNOWN",
     ViewDimension |-> "D3D11_SRV_DIMENSION_BUFFER",
     Buffer        |-> [FirstElement |-> firstElement, NumElements |-> numElements]]

CreateSRV(c, firstElement, numElements, hr) ==
    LET d      == ShaderResourceViewDesc(firstElement, numElements)
        called == DeviceCall(c, "CreateShaderResourceView", d)
    IN  IF hr = "S_OK"
        THEN [called EXCEPT !.self.srv_ = ComPtrTo(d)]
        ELSE [called EXCEPT !.exc = DXThrowIfFailed(hr,
                 "failed to create D3D11 shader-resource-view (SRV) for storage buffer")]

CreateCPUAccessBuffer(c, gpuBufferDesc, cpuAccessFlags, hr) ==
    LET d      == [ByteWidth           |-> gpuBufferDesc.ByteWidth,
                   Usage               |-> "GetUsageForCPUAccessFlags",
                   BindFlags           |-> {},
                   CPUAccessFlags      |-> cpuAccessFlags,
                   MiscFlags           |-> {},
                   StructureByteStride |-> gpuBufferDesc.StructureByteStride]
        called == DeviceCall(c, "CreateBuffer", d)
    IN  IF hr = "S_OK"
        THEN [called EXCEPT !.self.cpuAccessBuffer_ = ComPtrTo(d)]
        ELSE [called EXCEPT !.exc = DXThrowIfFailed(hr,
                 "failed to create D3D11 CPU-access buffer for storage buffer")]

\* CreateView that creates a shader-resource view whatever the type is.
CreateView_AlwaysSRV(c, numElements, hr) == CreateSRV(c, 0, numElements, hr)

\* Create either UAV or SRV.
CreateView(c, numElements, hr) ==
    IF IsUAV(c.self)
    THEN CreateUAV(c, 0, numElements, hr)
    ELSE CreateSRV(c, 0, numElements, hr)

\* What desc.size / desc.storageBuffer.elements can yield: the quotient, or
\* with a zero divisor (undefined) a trap or any value.
Quotients(a, b) ==
    IF b # 0
    THEN {[trap |-> FALSE, value |-> a \div b]}
    ELSE {[trap |-> TRUE, value |-> 0]} \cup {[trap |-> FALSE, value |-> v] : v \in 0 .. MaxSize}

\* The constructor body after the division has yielded `stride`; hr names
\* the results of the three device calls.
D3D11StorageBuffer(bd, stride, hr) ==
    LET self       == [NewD3D11StorageBuffer EXCEPT !.storageType_ = bd.storageBuffer.storageType]
        bufferDesc == [ByteWidth           |-> bd.size,
                       Usage               |-> "D3D11_USAGE_DEFAULT",
                       BindFlags           |-> GetBindFlags(self),
                       CPUAccessFlags      |-> {},
                       MiscFlags           |-> GetMiscFlags(self),
                       StructureByteStride |-> stride]
        c1 == CreateResource([self |-> self, calls |-> <<>>, exc |-> NoException],
                             bufferDesc, hr.resource)
        c2 == IF c1.exc # NoException THEN c1
              ELSE CreateView(c1, bd.storageBuffer.elements, hr.view)
        c3 == IF c2.exc # NoException THEN c2
              ELSE CreateCPUAccessBuffer(c2, bufferDesc,
                       {"D3D11_CPU_ACCESS_READ", "D3D11_CPU_ACCESS_WRITE"}, hr.cpuAccess)
    IN  c3

\* No construction yet, from the caller's descriptor bd.
NoStorageBuffer(bd) ==
    [status |-> "none", desc |-> bd, self |-> NewD3D11StorageBuffer,
     calls |-> <<>>, exc |-> NoException]

NoLast ==
    [status |-> "none", exc |-> NoException, desc |-> BaseDesc, defaultRenderPass |-> nullptr,
     calls |-> <<>>, created |-> {}, self |-> NewMTGraphicsPSO, psoDesc |-> NoDescriptor]

Init ==
    /\ LLGL_OS_IOS \in BOOLEAN
    /\ clipModeAvailable \in BOOLEAN
    /\ desc \in Descs
    /\ defaultRenderPass \in {nullptr, DefaultRenderPassPtr}
    /\ defaultRenderPass = nullptr => desc \in StageDescs
    /\ objects = <<>>
    /\ psos = <<>>
    /\ last = NoLast
    /\ numTranslate = 0
    /\ encoder = NewRenderCommandEncoder
    /\ encoderCalls = <<>>
    /\ threads = [t \in Threads |-> IdleThread]
    /\ declaredBeforeRWBuffer = {}
    /\ storageBuffer = NoStorageBuffer([size |-> 0, storageBuffer |-> [storageType |-> "Buffer", elements |-> 0]])

\* Translate of an object that keeps a reference to the caller's descriptor
\* instead of copying from it: the objects created earlier from the same
\* descriptor object follow its present content.
Translate_DescriptorByReference(native) ==
    /\ numTranslate < MaxTranslate
    /\ LET r == MTGraphicsPSO([objects |-> objects, calls |-> <<>>], desc, defaultRenderPass, native)
           earlier == [q \in DOMAIN psos |->
                          [psos[q] EXCEPT !.obj = ConvertStandaloneParameters(@, desc)]]
       IN /\ objects' = r.dev.objects
          /\ psos' = IF r.exc.type = "none"
                     THEN Append(earlier, [obj |-> r.self, desc |-> desc, defaultRenderPass |-> defaultRenderPass])
                     ELSE earlier
          /\ last' = [status |-> IF r.exc.type = "none" THEN "ok" ELSE r.exc.type,
                      exc |-> r.exc, desc |-> desc, defaultRenderPass |-> defaultRenderPass,
                      calls |-> r.dev.calls,
                      created |-> (Len(objects) + 1) .. Len(r.dev.objects),
                      self |-> r.self, psoDesc |-> r.psoDesc]
    /\ numTranslate' = numTranslate + 1
    /\ UNCHANGED << LLGL_OS_IOS, clipModeAvailable, desc, defaultRenderPass, encoder, encoderCalls,
                    threads,
                    declaredBeforeRWBuffer, storageBuffer >>

\* new MTGraphicsPSO(device, desc, defaultRenderPass): the object is the
\* caller's only when the constructor returns.
Translate(native) ==
    /\ numTranslate < MaxTranslate
    /\ LET r == MTGraphicsPSO([objects |-> objects, calls |-> <<>>], desc, defaultRenderPass, native)
       IN /\ objects' = r.dev.objects
          /\ psos' = IF r.exc.type = "none"
                     THEN Append(psos, [obj |-> r.self, desc |-> desc, defaultRenderPass |-> defaultRenderPass])
                     ELSE psos
          /\ last' = [status |-> IF r.exc.type = "none" THEN "ok" ELSE r.exc.type,
                      exc |-> r.exc, desc |-> desc, defaultRenderPass |-> defaultRenderPass,
                      calls |-> r.dev.calls,
                      created |-> (Len(objects) + 1) .. Len(r.dev.objects),
                      self |-> r.self, psoDesc |-> r.psoDesc]
    /\ numTranslate' = numTranslate + 1
    /\ UNCHANGED << LLGL_OS_IOS, clipModeAvailable, desc, defaultRenderPass, encoder, encoderCalls,
                    threads,
                    declaredBeforeRWBuffer, storageBuffer >>

\* pso->Bind(renderEncoder)
Bind(p) ==
    /\ LET r == BindPSO(psos[p].obj, encoder)
       IN /\ encoder' = r.encoder
          /\ encoderCalls' = r.calls
          /\ psos' = [psos EXCEPT ![p].obj = r.self]
    /\ UNCHANGED << LLGL_OS_IOS, clipModeAvailable, desc, defaultRenderPass, objects, last,
                    numTranslate, threads,
                    declaredBeforeRWBuffer, storageBuffer >>

\* The caller changes its descriptor between two creations.
SetBlendEnabled ==
    /\ ~desc.blend.targets[0].blendEnabled
    /\ desc' = [desc EXCEPT !.blend.targets[0].blendEnabled = TRUE]
    /\ UNCHANGED << LLGL_OS_IOS, clipModeAvailable, defaultRenderPass, objects, psos, last,
                    numTranslate, encoder, encoderCalls, threads,
                    declaredBeforeRWBuffer, storageBuffer >>

Next ==
    \/ \E native \in NativeOutcomes : Translate(native)
    \/ \E p \in DOMAIN psos : Bind(p)
    \/ SetBlendEnabled

Spec == Init /\ [][Next]_vars

(***************************************************************************)
(* A caller that changes more of its descriptor between two creations.     *)
(***************************************************************************)
\* The caller changes the topology of its descriptor between two creations
\* (to a line strip here).
SetPrimitiveTopology ==
    /\ desc.primitiveTopology # "LineStrip"
    /\ desc' = [desc EXCEPT !.primitiveTopology = "LineStrip"]
    /\ UNCHANGED << LLGL_OS_IOS, clipModeAvailable, defaultRenderPass, objects, psos, last,
                    numTranslate, encoder, encoderCalls, threads,
                    declaredBeforeRWBuffer, storageBuffer >>

\* A stencil face that keeps the stencil buffer and always passes.
NeutralStencilFace(face) ==
    [face EXCEPT !.stencilFailOp = "Keep", !.depthFailOp = "Keep", !.depthPassOp = "Keep",
                 !.compareOp = "AlwaysPass", !.readMask = 0, !.writeMask = 0]

\* The descriptor with the stencil test enabled and both faces neutral, all
\* other fields as they are.
WithNeutralStencilTest(d) ==
    [d EXCEPT !.stencil.testEnabled = TRUE,
              !.stencil.front = NeutralStencilFace(@),
              !.stencil.back = NeutralStencilFace(@)]

\* The caller enables the stencil test with neutral faces.
EnableNeutralStencilTest ==
    /\ ~desc.stencil.testEnabled
    /\ desc' = WithNeutralStencilTest(desc)
    /\ UNCHANGED << LLGL_OS_IOS, clipModeAvailable, defaultRenderPass, objects, psos, last,
                    numTranslate, encoder, encoderCalls, threads,
                    declaredBeforeRWBuffer, storageBuffer >>

\* The caller makes the stencil reference and the blend factor of its
\* descriptor dynamic.
SetDynamicState ==
    /\ ~desc.stencil.referenceDynamic
    /\ desc' = [desc EXCEPT !.stencil.referenceDynamic = TRUE,
                            !.blend.blendFactorDynamic = TRUE]
    /\ UNCHANGED << LLGL_OS_IOS, clipModeAvailable, defaultRenderPass, objects, psos, last,
                    numTranslate, encoder, encoderCalls, threads,
                    declaredBeforeRWBuffer, storageBuffer >>

\* The caller starts from a descriptor without stencil test, with a static
\* stencil reference other than 0 and a static blend factor in use.
CallerDescs ==
    {[d EXCEPT !.blend.blendFactor = [r |-> 1, g |-> 2, b |-> 3, a |-> 4],
               !.blend.targets[0].srcColor = "BlendFactor"] :
        d \in {s \in StencilDescs : /\ ~s.stencil.testEnabled
                                    /\ ~s.stencil.referenceDynamic
                                    /\ s.stencil.front.reference # 0}}

InitCaller ==
    /\ LLGL_OS_IOS \in BOOLEAN
    /\ clipModeAvailable \in BOOLEAN
    /\ desc \in CallerDescs
    /\ defaultRenderPass = DefaultRenderPassPtr
    /\ objects = <<>>
    /\ psos = <<>>
    /\ last = NoLast
    /\ numTranslate = 0
    /\ encoder = NewRenderCommandEncoder
    /\ encoderCalls = <<>>
    /\ threads = [t \in Threads |-> IdleThread]
    /\ declaredBeforeRWBuffer = {}
    /\ storageBuffer = NoStorageBuffer([size |-> 0, storageBuffer |-> [storageType |-> "Buffer", elements |-> 0]])

NextCaller ==
    \/ Next
    \/ SetPrimitiveTopology
    \/ EnableNeutralStencilTest
    \/ SetDynamicState

SpecCaller == InitCaller /\ [][NextCaller]_vars

(***************************************************************************)
(* Constructions on several threads with one device.  A thread's position  *)
(* names the native factory call it is inside; the call takes effect on    *)
(* the device when it returns.  The code takes no lock.                    *)
(***************************************************************************)
NativeCallPCs == {"newRenderPipelineState", "newComputePipelineState", "newDepthStencilState"}

\* The thread leaves the constructor by an exception.
Throw(thread, self, exc) ==
    [thread EXCEPT !.pc = "thrown", !.self = self, !.exc = exc]

\* The constructor up to its first native call (lines 51-67, 158-226).
TranslateEnter(t) ==
    /\ threads[t].pc = "idle"
    /\ LET s1 == ConvertStandaloneParameters(NewMTGraphicsPSO, desc)
           s2 == GetPatchMetadata(s1, desc.vertexShader)
           renderPassMT == GetRenderPass(desc, defaultRenderPass)
       IN threads' = [threads EXCEPT ![t] =
              IF desc.vertexShader = nullptr
              THEN Throw(@, s1, InvalidArgument("cannot create Metal pipeline without vertex shader"))
              ELSE IF renderPassMT = nullptr
              THEN Throw(@, s2, InvalidArgument("cannot create graphics pipeline without render pass"))
              ELSE [@ EXCEPT !.pc = "newRenderPipelineState", !.self = s2,
                             !.psoDesc = FillRenderPipelineDesc(s2, desc, renderPassMT)]]
    /\ UNCHANGED << LLGL_OS_IOS, clipModeAvailable, desc, defaultRenderPass, objects, psos, last,
                    numTranslate, encoder, encoderCalls,
                    declaredBeforeRWBuffer, storageBuffer >>

\* newRenderPipelineStateWithDescriptor returns (lines 226-236).
RenderPipelineReturns(t, native) ==
    /\ threads[t].pc = "newRenderPipelineState"
    /\ LET r == newRenderPipelineStateWithDescriptor([objects |-> objects, calls |-> <<>>],
                                                     threads[t].psoDesc, native)
           s == [threads[t].self EXCEPT !.renderPipelineState_ = r.handle]
       IN /\ objects' = r.dev.objects
          /\ threads' = [threads EXCEPT ![t] =
                 IF r.handle = nil
                 THEN Throw(@, s, MTThrowIfCreateFailed(r.error, "MTLRenderPipelineState"))
                 ELSE IF s.numPatchControlPoints_ > 0
                 THEN IF desc.tessControlShader # nullptr
                      THEN [@ EXCEPT !.pc = "newComputePipelineState", !.self = s]
                      ELSE Throw(@, s, InvalidArgument("cannot create Metal tessellation pipeline without tessellation compute shader"))
                 ELSE [@ EXCEPT !.pc = "newDepthStencilState", !.self = s]]
    /\ UNCHANGED << LLGL_OS_IOS, clipModeAvailable, desc, defaultRenderPass, psos, last,
                    numTranslate, encoder, encoderCalls,
                    declaredBeforeRWBuffer, storageBuffer >>

\* newComputePipelineStateWithFunction returns (lines 238-241).
ComputePipelineReturns(t, native) ==
    /\ threads[t].pc = "newComputePipelineState"
    /\ LET r == newComputePipelineStateWithFunction([objects |-> objects, calls |-> <<>>],
                                                    GetNativeMTShader(desc.tessControlShader), native)
           s == [threads[t].self EXCEPT !.tessPipelineState_ = r.handle]
       IN /\ objects' = r.dev.objects
          /\ threads' = [threads EXCEPT ![t] =
                 IF r.handle = nil
                 THEN Throw(@, s, MTThrowIfCreateFailed(r.error, "MTLComputePipelineState"))
                 ELSE [@ EXCEPT !.pc = "newDepthStencilState", !.self = s]]
    /\ UNCHANGED << LLGL_OS_IOS, clipModeAvailable, desc, defaultRenderPass, psos, last,
                    numTranslate, encoder, encoderCalls,
                    declaredBeforeRWBuffer, storageBuffer >>

\* newDepthStencilStateWithDescriptor returns (lines 272-278) and with it
\* the constructor.
DepthStencilReturns(t) ==
    /\ threads[t].pc = "newDepthStencilState"
    /\ LET r == newDepthStencilStateWithDescriptor([objects |-> objects, calls |-> <<>>],
                                                   FillDepthStencilDesc(desc))
           s == [StoreStencilReference(threads[t].self, desc) EXCEPT !.depthStencilState_ = r.handle]
       IN /\ objects' = r.dev.objects
          /\ threads' = [threads EXCEPT ![t] = [@ EXCEPT !.pc = "returned", !.self = s]]
          /\ psos' = Append(psos, [obj |-> s, desc |-> desc, defaultRenderPass |-> defaultRenderPass])
    /\ UNCHANGED << LLGL_OS_IOS, clipModeAvailable, desc, defaultRenderPass, last,
                    numTranslate, encoder, encoderCalls,
                    declaredBeforeRWBuffer, storageBuffer >>

ConcurrentDescs == {d \in StageDescs : d.tessellation.maxTessFactor <= MaxTessFactorIOS}

InitConcurrent ==
    /\ Init
    /\ desc \in ConcurrentDescs

NextConcurrent ==
    \/ \E t \in Threads : TranslateEnter(t)
    \/ \E t \in Threads, native \in NativeOutcomes : RenderPipelineReturns(t, native)
    \/ \E t \in Threads, native \in NativeOutcomes : ComputePipelineReturns(t, native)
    \/ \E t \in Threads : DepthStencilReturns(t)

SpecConcurrent == InitConcurrent /\ [][NextConcurrent]_vars

(***************************************************************************)
(* Construction of a storage buffer from the caller's descriptor.          *)
(***************************************************************************)
CreateStorageBuffer ==
    /\ storageBuffer.status = "none"
    /\ \E q \in Quotients(storageBuffer.desc.size, storageBuffer.desc.storageBuffer.elements),
          hr \in [resource : HRESULTs, view : HRESULTs, cpuAccess : HRESULTs] :
          storageBuffer' =
              IF q.trap
              THEN [storageBuffer EXCEPT !.status = "trapped"]
              ELSE LET c == D3D11StorageBuffer(storageBuffer.desc, q.value, hr)
                   IN  [status |-> IF c.exc = NoException THEN "constructed" ELSE "failed",
                        desc   |-> storageBuffer.desc,
                        self   |-> c.self,
                        calls  |-> c.calls,
                        exc    |-> c.exc]
    /\ UNCHANGED << LLGL_OS_IOS, clipModeAvailable, desc, defaultRenderPass, objects, psos, last,
                    numTranslate, encoder, encoderCalls, threads, declaredBeforeRWBuffer >>

InitStorage ==
    /\ LLGL_OS_IOS = FALSE
    /\ clipModeAvailable = TRUE
    /\ desc = BaseDesc
    /\ defaultRenderPass = nullptr
    /\ objects = <<>>
    /\ psos = <<>>
    /\ last = NoLast
    /\ numTranslate = 0
    /\ encoder = NewRenderCommandEncoder
    /\ encoderCalls = <<>>
    /\ threads = [t \in Threads |-> IdleThread]
    /\ declaredBeforeRWBuffer \in SUBSET (StorageBufferType \ {"RWBuffer"})
    /\ \E bd \in BufferDescriptors : storageBuffer = NoStorageBuffer(bd)

NextStorage == CreateStorageBuffer

SpecStorage == InitStorage /\ [][NextStorage]_vars

(***************************************************************************)
(* Properties.                                                             *)
(***************************************************************************)
Translated == last.status # "none"

\* The vertex stage of the latest construction's descriptor.
LastVertexShader == Shaders[last.desc.vertexShader]

\* C1: a construction from a descriptor without vertex shader fails with
\* InvalidArgument, and when it fails no native creation call has been issued
\* on the device and no native object has been created.
C1_NullVertexShader ==
    (Translated /\ last.desc.vertexShader = nullptr)
        => /\ last.status = "InvalidArgument"
           /\ last.calls = <<>>
           /\ last.created = {}

C1_Witness ==
    /\ Translated
    /\ last.desc.vertexShader = nullptr
    /\ last.status = "InvalidArgument"

\* C2: with a vertex shader, a construction whose descriptor names no render
\* pass and that is given no default render pass fails with InvalidArgument,
\* whatever the other fields of the descriptor are.
C2_NoRenderPass ==
    (/\ Translated
     /\ last.desc.vertexShader # nullptr
     /\ last.desc.renderPass = nullptr
     /\ last.defaultRenderPass = nullptr)
        => /\ last.status = "InvalidArgument"
           /\ last.exc.what = "cannot create graphics pipeline without render pass"

C2_Witness ==
    /\ Translated
    /\ last.desc.vertexShader # nullptr
    /\ last.desc.renderPass = nullptr
    /\ last.defaultRenderPass = nullptr
    /\ last.desc.tessControlShader # nullptr
    /\ last.status = "InvalidArgument"

\* The native handles an MTGraphicsPSO object holds.
HandlesOf(obj) ==
    {obj.renderPipelineState_, obj.tessPipelineState_, obj.depthStencilState_} \ {nil}

\* The native handles the caller can reach: those of the objects it was given.
ReachableHandles == UNION {HandlesOf(psos[p].obj) : p \in DOMAIN psos}

\* The calls of the latest construction that name the factory `name`.
FactoryCalls(name) == {i \in DOMAIN last.calls : last.calls[i].call = name}

\* Every native factory the latest construction called returned an object.
FactoriesSucceeded == \A i \in DOMAIN last.calls : last.calls[i].handle # nil

\* The latest construction had a render pass to use.
RenderPassResolvable ==
    last.desc.renderPass # nullptr \/ last.defaultRenderPass # nullptr

\* C3 (as stated): when the vertex stage reports control points and the
\* descriptor has no tessellation-control shader, the construction fails with
\* InvalidArgument.
C3_MissingTessControlShader ==
    (/\ Translated
     /\ last.desc.vertexShader # nullptr
     /\ LastVertexShader.numPatchControlPoints > 0
     /\ last.desc.tessControlShader = nullptr)
        => last.status = "InvalidArgument"

\* C4: when the vertex stage reports no control points, the construction does
\* not ask for a tessellation-control shader (it succeeds without one when
\* the render pass is there and the native factories accept), creates no
\* compute pipeline, and leaves the tessellation fields of the object and of
\* the native descriptor as they were initialised.
C4_NoTessellation ==
    (/\ Translated
     /\ last.desc.vertexShader # nullptr
     /\ LastVertexShader.numPatchControlPoints = 0)
        => /\ last.exc.what # "cannot create Metal tessellation pipeline without tessellation compute shader"
           /\ (RenderPassResolvable /\ FactoriesSucceeded) => last.status = "ok"
           /\ FactoryCalls("newComputePipelineStateWithFunction") = {}
           /\ last.self.tessPipelineState_ = nil
           /\ last.self.numPatchControlPoints_ = 0
           /\ last.self.patchType_ = "MTLPatchTypeNone"
           /\ last.psoDesc.allocated =>
                 /\ last.psoDesc.written \cap TessellationProperties = {}
                 /\ \A f \in TessellationProperties :
                       last.psoDesc[f] = NewRenderPipelineDescriptor[f]

C4_Witness ==
    /\ Translated
    /\ last.desc.vertexShader # nullptr
    /\ LastVertexShader.numPatchControlPoints = 0
    /\ last.desc.tessControlShader = nullptr
    /\ last.desc.tessellation.partition = "FractionalOdd"
    /\ last.status = "ok"

\* C5 (as stated): a construction that fails leaks no native object: every
\* object it created is released by the component or can be reached by the
\* caller.  The component releases no pipeline object, so each must be
\* reachable.
C5_NoLeak ==
    (Translated /\ last.status # "ok") => last.created \subseteq ReachableHandles

\* C6: when a native pipeline factory returns no object, the construction
\* fails with BackendCreationFailed carrying the native error text, and no
\* factory is called twice in one construction.
C6_BackendCreationFailed ==
    Translated =>
        /\ \A i \in DOMAIN last.calls :
              last.calls[i].handle = nil
                 => /\ last.status = "BackendCreationFailed"
                    /\ last.exc.error = last.calls[i].error
                    /\ last.calls[i].error \in ErrorTexts
        /\ \A i, j \in DOMAIN last.calls :
              last.calls[i].call = last.calls[j].call => i = j

C6_Witness ==
    /\ Translated
    /\ Len(last.calls) = 2
    /\ last.calls[2].call = "newComputePipelineStateWithFunction"
    /\ last.calls[2].handle = nil
    /\ last.status = "BackendCreationFailed"

\* The render pass a construction from descriptor d uses.
RenderPassUsed(d, defaultRP) ==
    MTRenderPass(IF d.renderPass # nullptr THEN d.renderPass ELSE defaultRP)

NativeIndices == 0 .. (MaxNativeColorAttachments - 1)

\* C7: the loop over the colour attachments fills exactly the native
\* attachments i with i < 8 and i < the render pass's attachment count; with
\* more than 8 attachments it uses the first 8, does not fail, and reads or
\* writes no render pass attachment, native attachment or blend target at an
\* index of 8 or more.
C7_Truncation ==
    (Translated /\ last.psoDesc.allocated)
        => LET rp == RenderPassUsed(last.desc, last.defaultRenderPass)
               n == Size(rp.colorAttachments)
               used == {i \in NativeIndices : i < n}
           IN /\ last.psoDesc.indexed.renderPass = used
              /\ last.psoDesc.indexed.native = used
              /\ last.psoDesc.indexed.targets \subseteq NativeIndices
              /\ DOMAIN last.psoDesc.colorAttachments = NativeIndices
              /\ \A i \in NativeIndices :
                    IF i \in used
                    THEN last.psoDesc.colorAttachments[i].pixelFormat = rp.colorAttachments[i].pixelFormat
                    ELSE last.psoDesc.colorAttachments[i] = DefaultColorAttachmentDesc
              /\ (/\ n > MaxNativeColorAttachments
                  /\ LastVertexShader.numPatchControlPoints = 0
                  /\ FactoriesSucceeded) => last.status = "ok"

C7_Witness ==
    /\ Translated
    /\ last.psoDesc.allocated
    /\ Size(RenderPassUsed(last.desc, last.defaultRenderPass).colorAttachments) > MaxNativeColorAttachments
    /\ last.desc.blend.independentBlendEnabled
    /\ last.psoDesc.indexed.targets = NativeIndices
    /\ last.status = "ok"

\* The native colour attachment `att` holds the blend state of target t.
HoldsBlendStateOf(att, t) ==
    /\ att.blendingEnabled = (IF t.blendEnabled THEN "YES" ELSE "NO")
    /\ ("Red" \in att.writeMask) = t.colorMask.r
    /\ ("Green" \in att.writeMask) = t.colorMask.g
    /\ ("Blue" \in att.writeMask) = t.colorMask.b
    /\ ("Alpha" \in att.writeMask) = t.colorMask.a
    /\ att.rgbBlendOperation = ToMTLBlendOperation(t.colorArithmetic)
    /\ att.alphaBlendOperation = ToMTLBlendOperation(t.alphaArithmetic)
    /\ att.sourceRGBBlendFactor = ToMTLBlendFactor(t.srcColor)
    /\ att.destinationRGBBlendFactor = ToMTLBlendFactor(t.dstColor)
    /\ att.sourceAlphaBlendFactor = ToMTLBlendFactor(t.srcAlpha)
    /\ att.destinationAlphaBlendFactor = ToMTLBlendFactor(t.dstAlpha)

\* The native descriptor the render pipeline of pipeline state p was made of.
NativePipelineDesc(p) == objects[psos[p].obj.renderPipelineState_].desc

\* The colour attachments pipeline state p populates.
Populated(p) ==
    {i \in NativeIndices :
        i < Size(RenderPassUsed(psos[p].desc, psos[p].defaultRenderPass).colorAttachments)}

\* C8: without independent blending every populated colour attachment holds
\* the blend enable flag, write mask, blend operations and blend factors of
\* targets[0], whatever its own target holds; with independent blending
\* attachment i holds those of targets[i].
C8_IndependentBlend ==
    \A p \in DOMAIN psos :
        \A i \in Populated(p) :
            HoldsBlendStateOf(NativePipelineDesc(p).colorAttachments[i],
                              IF psos[p].desc.blend.independentBlendEnabled
                              THEN psos[p].desc.blend.targets[i]
                              ELSE psos[p].desc.blend.targets[0])

C8_Witness ==
    \E p \in DOMAIN psos :
        /\ ~psos[p].desc.blend.independentBlendEnabled
        /\ psos[p].desc.blend.targets[0].blendEnabled
        /\ \E i \in Populated(p) :
              /\ ~psos[p].desc.blend.targets[i].blendEnabled
              /\ psos[p].desc.blend.targets[i].srcColor # psos[p].desc.blend.targets[0].srcColor
              /\ psos[p].desc.blend.targets[i].colorMask # psos[p].desc.blend.targets[0].colorMask
              /\ NativePipelineDesc(p).colorAttachments[i].blendingEnabled = "YES"

\* The pipeline states whose render pipeline the encoder has bound.
BoundPSOs ==
    {p \in DOMAIN psos : psos[p].obj.renderPipelineState_ = encoder.renderPipelineState}

\* How often the latest Bind issued the call `name`.
CallCount(calls, name) == Cardinality({i \in DOMAIN calls : calls[i].call = name})

\* C9 (as stated): Bind of a pipeline state whose stencil reference is not
\* dynamic issues exactly one single-value stencil reference call and no
\* paired call when front and back reference are equal, and exactly one
\* paired call and no single-value call when they differ, on every platform.
C9_StencilReferenceCalls ==
    \A p \in BoundPSOs :
        ~psos[p].obj.stencilRefDynamic_
            => IF psos[p].obj.stencilFrontRef_ = psos[p].obj.stencilBackRef_
               THEN /\ CallCount(encoderCalls, "setStencilReferenceValue") = 1
                    /\ CallCount(encoderCalls, "setStencilFrontReferenceValue") = 0
               ELSE /\ CallCount(encoderCalls, "setStencilFrontReferenceValue") = 1
                    /\ CallCount(encoderCalls, "setStencilReferenceValue") = 0

\* A step that is a Bind of pipeline state p.
BindStep(p) ==
    /\ << encoder, encoderCalls >>' # << encoder, encoderCalls >>
    /\ encoderCalls'[1].args = << psos[p].obj.renderPipelineState_ >>

\* C10: Bind of a pipeline state whose stencil reference is dynamic issues no
\* stencil reference call of either form and leaves the encoder's stencil
\* reference as it was.
C10_DynamicStencilReference ==
    [][\A p \in DOMAIN psos :
          (BindStep(p) /\ psos[p].obj.stencilRefDynamic_)
             => /\ CallCount(encoderCalls', "setStencilReferenceValue") = 0
                /\ CallCount(encoderCalls', "setStencilFrontReferenceValue") = 0
                /\ encoder'.stencilFrontRef = encoder.stencilFrontRef
                /\ encoder'.stencilBackRef = encoder.stencilBackRef]_vars

C10_Witness ==
    \E p \in BoundPSOs :
        /\ psos[p].obj.stencilRefDynamic_
        /\ psos[p].obj.stencilFrontRef_ # encoder.stencilFrontRef
        /\ psos[p].obj.stencilFrontRef_ # psos[p].obj.stencilBackRef_
        /\ ~LLGL_OS_IOS
        /\ encoderCalls # <<>>

\* The blend constant of a descriptor, in the order red, green, blue, alpha.
BlendFactorRGBA(d) ==
    << d.blend.blendFactor.r, d.blend.blendFactor.g, d.blend.blendFactor.b,
       d.blend.blendFactor.a >>

\* Whether some blend target of the descriptor refers to the blend constant.
UsesBlendFactor(d) ==
    \E i \in DOMAIN d.blend.targets :
        \E f \in {"srcColor", "dstColor", "srcAlpha", "dstAlpha"} :
            d.blend.targets[i][f] \in {"BlendFactor", "InvBlendFactor"}

\* C11: Bind issues the blend constant call, with the red, green, blue and
\* alpha channel the descriptor had at creation in that order, exactly when
\* blendColorEnabled_ is set; blendColorEnabled_ is set only when a target
\* refers to the blend constant and the blend factor is not dynamic, so a
\* pipeline state with a dynamic blend factor issues no blend constant call.
C11_BlendColor ==
    \A p \in BoundPSOs :
        LET self == psos[p].obj
            d    == psos[p].desc
        IN /\ CallCount(encoderCalls, "setBlendColorRed")
                 = IF self.blendColorEnabled_ THEN 1 ELSE 0
           /\ self.blendColorEnabled_
                 => /\ \A i \in DOMAIN encoderCalls :
                          encoderCalls[i].call = "setBlendColorRed"
                             => encoderCalls[i].args = BlendFactorRGBA(d)
                    /\ encoder.blendColor = BlendFactorRGBA(d)
                    /\ UsesBlendFactor(d)
                    /\ ~d.blend.blendFactorDynamic
           /\ d.blend.blendFactorDynamic
                 => CallCount(encoderCalls, "setBlendColorRed") = 0

C11_Witness ==
    \E p \in BoundPSOs :
        /\ psos[p].obj.blendColorEnabled_
        /\ CallCount(encoderCalls, "setBlendColorRed") = 1
        /\ encoder.blendColor = << 1, 2, 3, 4 >>

\* The calls of Bind other than the binding of the render pipeline.
StateSettingCalls ==
    {"setDepthStencilState", "setCullMode", "setFrontFacingWinding", "setTriangleFillMode",
     "setDepthClipMode", "setDepthBias", "setStencilReferenceValue",
     "setStencilFrontReferenceValue", "setBlendColorRed"}

\* C12: in every Bind the binding of the render pipeline is the first call
\* on the encoder; the binding of the depth-stencil state and every
\* fixed-function call (cull, winding, fill, clip mode, depth bias, stencil
\* reference, blend constant) come after it.
C12_PipelineBoundFirst ==
    encoderCalls # <<>>
        => /\ encoderCalls[1].call = "setRenderPipelineState"
           /\ \E p \in DOMAIN psos :
                 encoderCalls[1].args = << psos[p].obj.renderPipelineState_ >>
           /\ \A i \in DOMAIN encoderCalls :
                 i > 1 => encoderCalls[i].call \in StateSettingCalls
           /\ CallCount(encoderCalls, "setDepthStencilState") = 1

C12_Witness ==
    /\ Len(encoderCalls) = 9
    /\ encoderCalls[1].call = "setRenderPipelineState"
    /\ {encoderCalls[i].call : i \in 2 .. 9}
          = StateSettingCalls \ {"setStencilFrontReferenceValue"}

\* The descriptor of the end-to-end scenario: triangles, one colour
\* attachment, no blending, depth always passing and written, stencil
\* references 0 and 0 that are not dynamic, no tessellation.
EndToEndDesc(d, defaultRP) ==
    /\ d.vertexShader # nullptr
    /\ Shaders[d.vertexShader].hasNative
    /\ Shaders[d.vertexShader].numPatchControlPoints = 0
    /\ d.primitiveTopology \in {"TriangleList", "TriangleStrip"}
    /\ d.renderPass # nullptr \/ defaultRP # nullptr
    /\ Size(RenderPassUsed(d, defaultRP).colorAttachments) = 1
    /\ \A i \in DOMAIN d.blend.targets : ~d.blend.targets[i].blendEnabled
    /\ d.depth.compareOp = "AlwaysPass"
    /\ d.depth.writeEnabled
    /\ ~d.stencil.referenceDynamic
    /\ d.stencil.front.reference = 0
    /\ d.stencil.back.reference = 0

\* The names of the calls of the latest Bind, in order.
CallNames == [i \in DOMAIN encoderCalls |-> encoderCalls[i].call]

\* C13 (as stated): for the end-to-end descriptor the construction succeeds
\* when the device creates the native objects, and Bind issues exactly the
\* binding of the render pipeline, the binding of the depth-stencil state,
\* the cull, winding and fill calls, the depth bias call where the platform
\* has it, and one single-value stencil reference call; no other call and no
\* blend constant call.
C13_EndToEnd ==
    /\ (Translated /\ EndToEndDesc(last.desc, last.defaultRenderPass) /\ FactoriesSucceeded)
          => last.status = "ok"
    /\ \A p \in BoundPSOs :
          EndToEndDesc(psos[p].desc, psos[p].defaultRenderPass)
             => CallNames
                  = << "setRenderPipelineState", "setDepthStencilState", "setCullMode",
                       "setFrontFacingWinding", "setTriangleFillMode" >>
                    \o (IF LLGL_OS_IOS THEN << >> ELSE << "setDepthBias" >>)
                    \o << "setStencilReferenceValue" >>

\* The native depth-stencil descriptor pipeline state p was created with.
NativeDepthStencilDesc(p) == objects[psos[p].obj.depthStencilState_].desc

\* C15: the native depth write flag equals desc.depth.writeEnabled whether
\* or not the depth test is enabled; with the depth test disabled the native
\* comparison is 'always' whatever compareOp says, so a descriptor with the
\* test disabled and writes enabled yields a state that writes depth.
C15_DepthWrite ==
    \A p \in DOMAIN psos :
        LET d == psos[p].desc
        IN /\ NativeDepthStencilDesc(p).depthWriteEnabled
                 = (IF d.depth.writeEnabled THEN "YES" ELSE "NO")
           /\ ~d.depth.testEnabled
                 => NativeDepthStencilDesc(p).depthCompareFunction = "MTLCompareFunctionAlways"
           /\ d.depth.testEnabled
                 => NativeDepthStencilDesc(p).depthCompareFunction
                      = ToMTLCompareFunction(d.depth.compareOp)

C15_Witness ==
    \E p \in DOMAIN psos :
        /\ ~psos[p].desc.depth.testEnabled
        /\ psos[p].desc.depth.writeEnabled
        /\ psos[p].desc.depth.compareOp = "Less"
        /\ NativeDepthStencilDesc(p).depthWriteEnabled = "YES"
        /\ NativeDepthStencilDesc(p).depthCompareFunction = "MTLCompareFunctionAlways"

\* C16: the render pass a construction uses is desc.renderPass whenever that
\* is not null, also when a default render pass is handed in, and the
\* default render pass only when desc.renderPass is null; the colour, depth
\* and stencil formats and the sample count of the native descriptor all
\* come from that one render pass.
C16_RenderPassPriority ==
    \A p \in DOMAIN psos :
        LET d  == psos[p].desc
            rp == MTRenderPass(IF d.renderPass # nullptr THEN d.renderPass
                               ELSE psos[p].defaultRenderPass)
            n  == NativePipelineDesc(p)
        IN /\ n.indexed.native
                 = {i \in NativeIndices : i < Size(rp.colorAttachments)}
           /\ \A i \in n.indexed.native :
                 n.colorAttachments[i].pixelFormat = rp.colorAttachments[i].pixelFormat
           /\ n.depthAttachmentPixelFormat = rp.depthAttachment.pixelFormat
           /\ n.stencilAttachmentPixelFormat = rp.stencilAttachment.pixelFormat
           /\ d.rasterizer.multiSampleEnabled => n.rasterSampleCount = rp.sampleCount

C16_Witness ==
    \E p \in DOMAIN psos :
        /\ psos[p].desc.renderPass # nullptr
        /\ psos[p].defaultRenderPass # nullptr
        /\ psos[p].desc.renderPass # psos[p].defaultRenderPass
        /\ psos[p].desc.rasterizer.multiSampleEnabled
        /\ NativePipelineDesc(p).rasterSampleCount
              = MTRenderPass(psos[p].desc.renderPass).sampleCount
        /\ NativePipelineDesc(p).rasterSampleCount
              # MTRenderPass(psos[p].defaultRenderPass).sampleCount
        /\ NativePipelineDesc(p).depthAttachmentPixelFormat
              # MTRenderPass(psos[p].defaultRenderPass).depthAttachment.pixelFormat

\* C20: in the native pipeline descriptor rasterizationEnabled is the
\* negation of desc.rasterizer.discardEnabled, and the sample count is the
\* sample count of the render pass in use when multiSampleEnabled is set and
\* 1 otherwise.
C20_RasterizationAndSampleCount ==
    \A p \in DOMAIN psos :
        LET d == psos[p].desc
            n == NativePipelineDesc(p)
        IN /\ (n.rasterizationEnabled = "YES") = ~d.rasterizer.discardEnabled
           /\ n.rasterizationEnabled \in {"YES", "NO"}
           /\ n.rasterSampleCount
                 = IF d.rasterizer.multiSampleEnabled
                   THEN RenderPassUsed(d, psos[p].defaultRenderPass).sampleCount
                   ELSE 1

C20_Witness ==
    \E p, q \in DOMAIN psos :
        /\ psos[p].desc.rasterizer.discardEnabled
        /\ NativePipelineDesc(p).rasterizationEnabled = "NO"
        /\ psos[q].desc.rasterizer.multiSampleEnabled
        /\ NativePipelineDesc(q).rasterSampleCount > 1

\* A step leaves every constructed pipeline state and every native object
\* as it is.
PSOsUnchanged ==
    /\ \A p \in DOMAIN psos : p \in DOMAIN psos' /\ psos'[p] = psos[p]
    /\ \A h \in DOMAIN objects : h \in DOMAIN objects' /\ objects'[h] = objects[h]

\* The object holds no stencil reference where the reference is dynamic and
\* no blend constant where the blend factor is dynamic.
DynamicValuesNotStored ==
    \A p \in DOMAIN psos :
        /\ psos[p].obj.stencilRefDynamic_
              => /\ psos[p].obj.stencilFrontRef_ = NewMTGraphicsPSO.stencilFrontRef_
                 /\ psos[p].obj.stencilBackRef_ = NewMTGraphicsPSO.stencilBackRef_
        /\ psos[p].obj.blendColorDynamic_
              => psos[p].obj.blendColor_ = NewMTGraphicsPSO.blendColor_

\* C17 (as stated): a constructed pipeline state never changes, whatever is
\* bound afterwards, and a stencil reference or blend constant that is
\* dynamic is not stored in it.
C17_ImmutableNoDynamicValues ==
    [][PSOsUnchanged]_vars /\ []DynamicValuesNotStored

\* The stencil references and blend constant an object holds are those of
\* its descriptor, whatever the dynamic flags say.
DescriptorValuesStored ==
    \A p \in DOMAIN psos :
        /\ psos[p].obj.stencilFrontRef_ = psos[p].desc.stencil.front.reference
        /\ psos[p].obj.stencilBackRef_ = psos[p].desc.stencil.back.reference
        /\ psos[p].obj.stencilRefDynamic_ = psos[p].desc.stencil.referenceDynamic
        /\ psos[p].obj.blendColor_ = BlendFactorRGBA(psos[p].desc)
        /\ psos[p].obj.blendColorDynamic_ = psos[p].desc.blend.blendFactorDynamic

\* C17 (amended): a constructed pipeline state never changes: no Bind, and
\* no other step, writes a member or a native object of it, so its handles
\* and its whole snapshot stay as the constructor left them; the snapshot
\* holds the descriptor's stencil references and blend constant also when
\* they are flagged dynamic.
C17_Immutable ==
    [][PSOsUnchanged]_vars /\ []DescriptorValuesStored

C17_Witness ==
    \E p \in BoundPSOs :
        /\ encoderCalls # <<>>
        /\ psos[p].obj.stencilRefDynamic_
        /\ psos[p].obj.stencilFrontRef_ # NewMTGraphicsPSO.stencilFrontRef_
        /\ psos[p].obj = last.self

\* The calls of a Bind with each native handle replaced by the descriptor
\* the native object was created from.
CallsByDescriptor(calls) ==
    [i \in DOMAIN calls |->
        IF calls[i].call \in {"setRenderPipelineState", "setDepthStencilState"}
        THEN [call |-> calls[i].call, args |-> << objects[calls[i].args[1]].desc >>]
        ELSE calls[i]]

\* Pipeline state q was created from the descriptor of p with the stencil
\* test enabled and neutral faces, p from one with the stencil test disabled.
NeutralStencilTwin(p, q) ==
    /\ ~psos[p].desc.stencil.testEnabled
    /\ psos[q].desc = WithNeutralStencilTest(psos[p].desc)
    /\ psos[q].defaultRenderPass = psos[p].defaultRenderPass

\* C14: a descriptor with the stencil test disabled yields the same native
\* depth-stencil descriptor (operations, comparison, read and write mask of
\* both faces) and the same Bind call sequence as the same descriptor with
\* the stencil test enabled and both faces {keep, keep, keep, always, 0, 0}.
C14_StencilDisabledEquivalence ==
    /\ [](\A p, q \in DOMAIN psos :
            NeutralStencilTwin(p, q)
               => NativeDepthStencilDesc(p) = NativeDepthStencilDesc(q))
    /\ [][\A p, q \in DOMAIN psos :
            (NeutralStencilTwin(p, q) /\ p \in BoundPSOs /\ encoderCalls # <<>> /\ BindStep(q))
               => CallsByDescriptor(encoderCalls') = CallsByDescriptor(encoderCalls)]_vars

C14_Witness ==
    \E p, q \in DOMAIN psos :
        /\ NeutralStencilTwin(p, q)
        /\ psos[p].desc.stencil.front.depthPassOp = "Replace"
        /\ psos[p].desc.stencil.front.readMask # 0
        /\ psos[p].desc.stencil.front.reference # psos[p].desc.stencil.back.reference
        /\ NativeDepthStencilDesc(q).frontFaceStencil.readMask = 0
        /\ q \in BoundPSOs
        /\ ~LLGL_OS_IOS
        /\ CallCount(encoderCalls, "setStencilFrontReferenceValue") = 1

\* Pipeline state p holds what its descriptor held when p was created.
KeepsCreationState(p) ==
    LET d == psos[p].desc
    IN /\ psos[p].obj.primitiveType_ = ToMTLPrimitiveType(d.primitiveTopology)
       /\ NativePipelineDesc(p).colorAttachments[0].blendingEnabled
             = (IF d.blend.targets[0].blendEnabled THEN "YES" ELSE "NO")
       /\ (NativeDepthStencilDesc(p).frontFaceStencil.depthStencilPassOperation
              = "MTLStencilOperationReplace")
             = (d.stencil.testEnabled /\ d.stencil.front.depthPassOp = "Replace")

\* C18: the descriptor is read during the construction only: a step in which
\* the caller changes its descriptor leaves every pipeline state created from
\* it as it is, and each of several pipeline states created from one
\* descriptor object holds the state the descriptor had at its own creation,
\* whatever the descriptor holds later.
C18_DescriptorReadOnce ==
    /\ [](\A p \in DOMAIN psos : KeepsCreationState(p))
    /\ [][desc' # desc => (psos' = psos /\ objects' = objects)]_vars

C18_Witness ==
    \E p, q \in DOMAIN psos :
        /\ psos[p].obj.primitiveType_ = "MTLPrimitiveTypeTriangle"
        /\ psos[q].obj.primitiveType_ = "MTLPrimitiveTypeLineStrip"
        /\ NativePipelineDesc(p).colorAttachments[0].blendingEnabled = "NO"
        /\ NativePipelineDesc(q).colorAttachments[0].blendingEnabled = "YES"
        /\ psos[p].desc # desc
        /\ psos[q].desc = desc

\* The threads that are inside a native creation call on the device.
InNativeCall == {t \in Threads : threads[t].pc \in NativeCallPCs}

\* C19 (as stated): the native creation calls that concurrent constructions
\* issue to one device are serialized: at no time are two of them in progress.
C19_NativeCallsSerialized ==
    Cardinality(InNativeCall) <= 1

\* The largest tessellation factor of the platform the code is built for.
PlatformTessFactorLimit == IF LLGL_OS_IOS THEN MaxTessFactorIOS ELSE MaxTessFactorOther

\* C21: for a vertex stage with patch control points the native maximum
\* tessellation factor is the smaller of desc.tessellation.maxTessFactor and
\* the platform limit (16 on iOS, 64 elsewhere): never above the limit, and
\* the requested factor whenever that is within the limit.
C21_MaxTessFactorClamped ==
    \A p \in DOMAIN psos :
        psos[p].obj.numPatchControlPoints_ > 0
           => LET requested == psos[p].desc.tessellation.maxTessFactor
                  native    == NativePipelineDesc(p).maxTessellationFactor
              IN /\ "maxTessellationFactor" \in NativePipelineDesc(p).written
                 /\ native <= PlatformTessFactorLimit
                 /\ requested <= PlatformTessFactorLimit => native = requested
                 /\ requested > PlatformTessFactorLimit => native = PlatformTessFactorLimit

C21_Witness ==
    \E p \in DOMAIN psos :
        /\ psos[p].obj.numPatchControlPoints_ > 0
        /\ LLGL_OS_IOS
        /\ psos[p].desc.tessellation.maxTessFactor > MaxTessFactorIOS
        /\ psos[p].desc.tessellation.maxTessFactor < MaxTessFactorOther
        /\ NativePipelineDesc(p).maxTessellationFactor = MaxTessFactorIOS

\* The call `name` of the latest Bind was issued once, with `args`.
IssuedOnceWith(name, args) ==
    /\ CallCount(encoderCalls, name) = 1
    /\ \A i \in DOMAIN encoderCalls :
          encoderCalls[i].call = name => encoderCalls[i].args = args

\* The steps of Bind other than the depth bias were performed for `self`.
OtherBindStepsPerformed(self) ==
    /\ IssuedOnceWith("setRenderPipelineState", << self.renderPipelineState_ >>)
    /\ IssuedOnceWith("setDepthStencilState", << self.depthStencilState_ >>)
    /\ IssuedOnceWith("setCullMode", << self.cullMode_ >>)
    /\ IssuedOnceWith("setFrontFacingWinding", << self.winding_ >>)
    /\ IssuedOnceWith("setTriangleFillMode", << self.fillMode_ >>)
    /\ clipModeAvailable => IssuedOnceWith("setDepthClipMode", << self.clipMode_ >>)
    /\ ~self.stencilRefDynamic_
          => CallCount(encoderCalls, "setStencilReferenceValue")
               + CallCount(encoderCalls, "setStencilFrontReferenceValue") = 1
    /\ self.blendColorEnabled_ => IssuedOnceWith("setBlendColorRed", self.blendColor_)

\* C22 (as stated): on the iOS build Bind issues no depth bias call and
\* performs every other step; on the other builds it issues exactly one
\* depth bias call, with the constant factor, slope factor and clamp of the
\* snapshot.
C22_DepthBiasCarveOut ==
    \A p \in BoundPSOs :
        LET self == psos[p].obj
        IN IF LLGL_OS_IOS
           THEN /\ CallCount(encoderCalls, "setDepthBias") = 0
                /\ OtherBindStepsPerformed(self)
           ELSE /\ IssuedOnceWith("setDepthBias",
                                  << self.depthBias_, self.depthSlope_, self.depthClamp_ >>)
                /\ self.depthBias_ = psos[p].desc.rasterizer.depthBias.constantFactor
                /\ self.depthSlope_ = psos[p].desc.rasterizer.depthBias.slopeFactor
                /\ self.depthClamp_ = psos[p].desc.rasterizer.depthBias.clamp

\* The depth clip mode a descriptor asks for.
ClipModeOf(d) ==
    IF d.rasterizer.depthClampEnabled THEN "MTLDepthClipModeClamp" ELSE "MTLDepthClipModeClip"

NativeStencilProperties ==
    {"stencilFailureOperation", "depthFailureOperation", "depthStencilPassOperation",
     "stencilCompareFunction", "readMask", "writeMask"}

\* C24: the stencil front reference, back reference and dynamic flag of the
\* snapshot are those of the descriptor, with the stencil test enabled or
\* not, and the native depth-stencil descriptor holds no reference value:
\* its faces hold operations, comparison and masks only.
C24_StencilReferenceSnapshot ==
    \A p \in DOMAIN psos :
        LET self == psos[p].obj
            d    == psos[p].desc
            n    == NativeDepthStencilDesc(p)
        IN /\ self.stencilFrontRef_ = d.stencil.front.reference
           /\ self.stencilBackRef_ = d.stencil.back.reference
           /\ self.stencilRefDynamic_ = d.stencil.referenceDynamic
           /\ DOMAIN n.frontFaceStencil = NativeStencilProperties
           /\ DOMAIN n.backFaceStencil = NativeStencilProperties
           /\ DOMAIN n = {"allocated", "depthWriteEnabled", "depthCompareFunction",
                          "frontFaceStencil", "backFaceStencil"}

C24_Witness ==
    \E p, q \in DOMAIN psos :
        /\ ~psos[p].desc.stencil.testEnabled
        /\ psos[p].desc.stencil.front.reference # psos[p].desc.stencil.back.reference
        /\ psos[p].obj.stencilFrontRef_ # psos[p].obj.stencilBackRef_
        /\ psos[q].desc.stencil.testEnabled
        /\ psos[q].obj.stencilFrontRef_ = psos[p].obj.stencilFrontRef_
        /\ psos[q].obj.stencilBackRef_ = psos[p].obj.stencilBackRef_

\* C25 (as stated): a construction that fails with InvalidArgument (no
\* vertex shader, no render pass, or no tessellation-control shader) has
\* issued no native creation call and created no native object.
C25_ValidationBeforeNativeCalls ==
    (Translated /\ last.status = "InvalidArgument")
        => /\ last.calls = <<>>
           /\ last.created = {}

\* Handle h names a native object of the given kind.
IsNativeObject(h, kind) ==
    /\ h # nil
    /\ h \in DOMAIN objects
    /\ objects[h].kind = kind

C27_StateDeterminedByPSO ==
    \A p \in BoundPSOs :
        encoderCalls # <<>>
           => encoder = BindPSO(psos[p].obj, NewRenderCommandEncoder).encoder

\* What a Bind of `self` leaves in the encoder `before`.
StateAfterBind(self, before) ==
    [renderPipelineState |-> self.renderPipelineState_,
     depthStencilState   |-> self.depthStencilState_,
     cullMode            |-> self.cullMode_,
     winding             |-> self.winding_,
     fillMode            |-> self.fillMode_,
     depthClipMode       |-> IF clipModeAvailable THEN self.clipMode_ ELSE before.depthClipMode,
     depthBias           |-> IF ~LLGL_OS_IOS
                             THEN << self.depthBias_, self.depthSlope_, self.depthClamp_ >>
                             ELSE before.depthBias,
     stencilFrontRef     |-> IF ~LLGL_OS_IOS /\ ~self.stencilRefDynamic_
                             THEN self.stencilFrontRef_ ELSE before.stencilFrontRef,
     stencilBackRef      |-> IF ~LLGL_OS_IOS /\ ~self.stencilRefDynamic_
                             THEN self.stencilBackRef_ ELSE before.stencilBackRef,
     blendColor          |-> IF self.blendColorEnabled_
                             THEN self.blendColor_ ELSE before.blendColor]

\* C27 (amended): after Bind(P) pipeline, depth-stencil state, cull mode,
\* winding and fill mode are those of P whatever was bound before; so are
\* the clip mode where the control is available, the depth bias on the
\* builds other than iOS, the stencil reference on those builds when P's
\* reference is not dynamic, and the blend constant when P's
\* blendColorEnabled_ is set.  In every other case the value the encoder
\* held before the Bind survives it.
C27_StateAfterBind ==
    [][\A p \in DOMAIN psos :
          BindStep(p) => encoder' = StateAfterBind(psos[p].obj, encoder)]_vars

C27_Witness ==
    \E p \in BoundPSOs :
        /\ ~LLGL_OS_IOS
        /\ encoderCalls # <<>>
        /\ psos[p].obj.stencilRefDynamic_
        /\ ~psos[p].obj.blendColorEnabled_
        /\ encoder.stencilFrontRef # NewRenderCommandEncoder.stencilFrontRef
        /\ encoder.blendColor # NewRenderCommandEncoder.blendColor
        /\ CallCount(encoderCalls, "setBlendColorRed") = 0
        /\ CallCount(encoderCalls, "setStencilReferenceValue") = 0
        /\ CallCount(encoderCalls, "setStencilFrontReferenceValue") = 0

\* The view-creation calls among `calls`.
ViewCalls(calls) ==
    {i \in DOMAIN calls :
        calls[i].name \in {"CreateUnorderedAccessView", "CreateShaderResourceView"}}

\* C28: a constructed D3D11StorageBuffer has created exactly one resource
\* view, an unordered-access view when its storage type is not below
\* RWBuffer and a shader-resource view otherwise; the hardware buffer has
\* the bind flag UNORDERED_ACCESS exactly with the former and
\* SHADER_RESOURCE exactly with the latter; the view starts at element 0
\* and has desc.storageBuffer.elements elements.  No construction, failed
\* ones included, creates more than one view.
C28_ExactlyOneView ==
    LET self  == storageBuffer.self
        bd    == storageBuffer.desc
        isUAV == bd.storageBuffer.storageType \notin declaredBeforeRWBuffer
        views == ViewCalls(storageBuffer.calls)
    IN  /\ Cardinality(views) <= 1
        /\ storageBuffer.status = "constructed" =>
              /\ Cardinality(views) = 1
              /\ \A i \in views :
                    /\ storageBuffer.calls[i].name =
                          IF isUAV THEN "CreateUnorderedAccessView"
                                   ELSE "CreateShaderResourceView"
                    /\ storageBuffer.calls[i].desc.Buffer.FirstElement = 0
                    /\ storageBuffer.calls[i].desc.Buffer.NumElements = bd.storageBuffer.elements
              /\ self.uav_.null = ~isUAV
              /\ self.srv_.null = isUAV
              /\ ("D3D11_BIND_UNORDERED_ACCESS" \in self.resource.desc.BindFlags) = ~self.uav_.null
              /\ ("D3D11_BIND_SHADER_RESOURCE" \in self.resource.desc.BindFlags) = ~self.srv_.null

C28_Witness ==
    /\ storageBuffer.status = "constructed"
    /\ storageBuffer.desc.storageBuffer.storageType = "RWStructuredBuffer"
    /\ storageBuffer.desc.storageBuffer.elements = MaxElements
    /\ "StructuredBuffer" \in declaredBeforeRWBuffer
    /\ ~storageBuffer.self.uav_.null
    /\ storageBuffer.self.uav_.desc.Buffer.NumElements = MaxElements
    /\ storageBuffer.self.srv_.null

StructuredTypes ==
    {"StructuredBuffer", "RWStructuredBuffer", "AppendStructuredBuffer", "ConsumeStructuredBuffer"}

ByteAddressTypes == {"ByteAddressBuffer", "RWByteAddressBuffer"}

\* C29: IsStructured() and IsByteAddressable() never hold together, and the
\* hardware buffer's misc flags are STRUCTURED for the structured types,
\* ALLOW_RAW_VIEWS for the byte-address types and 0 for the others; an
\* unordered-access view has the RAW flag and the format R32_TYPELESS
\* exactly for a byte-address type, the APPEND flag exactly for
\* AppendStructuredBuffer, the COUNTER flag exactly for
\* ConsumeStructuredBuffer, and for every other type no flag and the format
\* UNKNOWN.
C29_MiscAndUAVFlags ==
    LET self == storageBuffer.self
        type == storageBuffer.desc.storageBuffer.storageType
        misc == self.resource.desc.MiscFlags
        uav  == self.uav_.desc
    IN  /\ \A t \in StorageBufferType :
               LET b == [NewD3D11StorageBuffer EXCEPT !.storageType_ = t]
               IN  ~(IsStructured(b) /\ IsByteAddressable(b))
        /\ ~self.resource.null =>
              /\ IsStructured(self) = (type \in StructuredTypes)
              /\ IsByteAddressable(self) = (type \in ByteAddressTypes)
              /\ misc = IF type \in StructuredTypes
                        THEN {"D3D11_RESOURCE_MISC_BUFFER_STRUCTURED"}
                        ELSE IF type \in ByteAddressTypes
                             THEN {"D3D11_RESOURCE_MISC_BUFFER_ALLOW_RAW_VIEWS"}
                             ELSE {}
        /\ ~self.uav_.null =>
              /\ ("D3D11_BUFFER_UAV_FLAG_RAW" \in uav.Buffer.Flags) = (type \in ByteAddressTypes)
              /\ (uav.Format = "DXGI_FORMAT_R32_TYPELESS") = (type \in ByteAddressTypes)
              /\ ("D3D11_BUFFER_UAV_FLAG_APPEND" \in uav.Buffer.Flags)
                    = (type = "AppendStructuredBuffer")
              /\ ("D3D11_BUFFER_UAV_FLAG_COUNTER" \in uav.Buffer.Flags)
                    = (type = "ConsumeStructuredBuffer")
              /\ Cardinality(uav.Buffer.Flags) <= 1
              /\ type \notin ByteAddressTypes \cup {"AppendStructuredBuffer", "ConsumeStructuredBuffer"}
                    => uav.Buffer.Flags = {} /\ uav.Format = "DXGI_FORMAT_UNKNOWN"
              /\ type \notin ByteAddressTypes => uav.Format = "DXGI_FORMAT_UNKNOWN"

C29_Witness ==
    /\ storageBuffer.status = "constructed"
    /\ storageBuffer.desc.storageBuffer.storageType = "ConsumeStructuredBuffer"
    /\ storageBuffer.self.resource.desc.MiscFlags = {"D3D11_RESOURCE_MISC_BUFFER_STRUCTURED"}
    /\ ~storageBuffer.self.uav_.null
    /\ storageBuffer.self.uav_.desc.Buffer.Flags = {"D3D11_BUFFER_UAV_FLAG_COUNTER"}
    /\ storageBuffer.self.uav_.desc.Format = "DXGI_FORMAT_UNKNOWN"

====
